---- MODULE Spec2Model ----
(***************************************************************************)
(* MineWright reflex layer: the per-agent actor (cloudflare/src/index.py), *)
(* the tactical decision engine (cloudflare/src/tactical.py) and the sync  *)
(* manager with its telemetry logger (cloudflare/src/sync.py).             *)
(*                                                                         *)
(* Numbers.  Every quantity the code keeps as a float in [0,1] (danger     *)
(* level, severity, priority, confidence, combat score) is an integer      *)
(* count of 1/Unit, so 1.0 is Unit and 0.3 is Frac(3, 10).  Distances are  *)
(* whole blocks: the inputs are chosen so that every Euclidean distance    *)
(* the code computes is an integer (Sqrt is undefined otherwise).          *)
(***************************************************************************)
EXTENDS Integers, Sequences, FiniteSets, TLC

VARIABLES
    state_data,   \* AgentStateDO.state_data: <<>> is None, <<s>> a loaded AgentState
    storage,      \* the record under storage key "state": <<>> is absent, <<d>> the dict
    storage_ok,   \* environment: whether storage.get / storage.put succeed
    response,     \* what the fetch taken as the last step answered; NoResponse after any other step
    manager,      \* what the name sync_state yields on the manager: see ManagerKinds
    sync_state,   \* the SyncState instance kept by the SyncManager
    buffer,       \* TelemetryLogger.buffer
    now,          \* the clock read by datetime.utcnow(), in seconds
    logged,       \* number of events logged into the TelemetryLogger so far
    sync_call,    \* outcome of the last SyncManager / driver call
    call,         \* tactical engine: the function applied, its arguments, its result
    fleet,        \* several agents behind the worker: each actor's memory and storage
    alone,        \* what each of them reaches when only its own requests are run
    in_flight,    \* requests to one agent suspended at an await: their position and locals
    driver        \* perform_periodic_sync suspended in send_telemetry: NoDriver when not

vars == <<state_data, storage, storage_ok, response,
          manager, sync_state, buffer, now, logged, sync_call, call, fleet, alone, in_flight, driver>>

actor_vars == <<state_data, storage, storage_ok, response>>
sync_vars == <<manager, sync_state, buffer, logged, sync_call>>
\* the variables of the models of several agents and of suspended coroutines
fleet_vars == <<fleet, alone, in_flight, driver>>

----------------------------------------------------------------------------
(* Fixed-point arithmetic *)

\* 1.0; divisible by every denominator the engine's factors produce
Unit == 2 * 20 * 10 * 20 * 10 * 3

Frac(n, d) == (n * Unit) \div d

Min(a, b) == IF a < b THEN a ELSE b

Max(a, b) == IF a > b THEN a ELSE b

Abs(a) == IF a < 0 THEN -a ELSE a

\* math.sqrt on the perfect squares the inputs are restricted to
Sqrt(n) == CHOOSE r \in 0..n : r * r = n

\* dict.get(key, default)
Get(d, key, default) == IF key \in DOMAIN d THEN d[key] ELSE default

\* Optional values: <<>> is None, <<v>> is v
None == <<>>

Some(v) == <<v>>

----------------------------------------------------------------------------
(* tactical.py: data *)

Position(x, y, z) == [x |-> x, y |-> y, z |-> z]

\* ENTITY_DANGER_RATINGS, each rating doubled (0.5 steps become integers)
ENTITY_DANGER_RATINGS ==
    [ warden |-> 20, ender_dragon |-> 20, wither |-> 20, witch |-> 12,
      vindicator |-> 10, evoker |-> 10, piglin_brute |-> 10,
      creeper |-> 8, zombie_pigman |-> 8, blaze |-> 7, ghast |-> 7, bogged |-> 6,
      skeleton |-> 5, stray |-> 5, spider |-> 4, cave_spider |-> 5, drowned |-> 4,
      husk |-> 4, phantom |-> 5,
      zombie |-> 3, zombie_villager |-> 3, slime |-> 2, silverfish |-> 2,
      enderman |-> 1,
      piglin |-> 0, villager |-> 0, animal |-> 0 ]

\* ENTITY_DANGER_RATINGS.get(entity_type, 1.0), doubled
base_danger_of(entity_type) ==
    IF entity_type \in DOMAIN ENTITY_DANGER_RATINGS
    THEN ENTITY_DANGER_RATINGS[entity_type]
    ELSE 2

\* dangerous_blocks of detect_hazards: severity in tenths, radius in blocks
dangerous_blocks ==
    [ lava |-> [type |-> "lava", severity |-> 10, radius |-> 3],
      fire |-> [type |-> "fire", severity |-> 7, radius |-> 2],
      magma_block |-> [type |-> "fire", severity |-> 5, radius |-> 1],
      campfire |-> [type |-> "fire", severity |-> 3, radius |-> 1],
      sweet_berry_bush |-> [type |-> "damage", severity |-> 2, radius |-> 0],
      wither_rose |-> [type |-> "damage", severity |-> 4, radius |-> 0],
      cactus |-> [type |-> "damage", severity |-> 3, radius |-> 0] ]

\* math.sqrt(dx**2 + dy**2 + dz**2)
distance_between(a, b) ==
    Sqrt((a.x - b.x) * (a.x - b.x) + (a.y - b.y) * (a.y - b.y) + (a.z - b.z) * (a.z - b.z))

----------------------------------------------------------------------------
(* tactical.py: calculate_danger_level and assess_threats *)

\* a health factor whose healthy band starts at 15
health_factor_from_15(agent_health) ==
    IF agent_health < 5 THEN 20
    ELSE IF agent_health < 10 THEN 15
    ELSE IF agent_health >= 15 THEN 8
    ELSE 10

\* health_factor, in tenths
health_factor(agent_health) ==
    IF agent_health < 5 THEN 20
    ELSE IF agent_health < 10 THEN 15
    ELSE IF agent_health > 15 THEN 8
    ELSE 10

\* base_danger is doubled, distance in blocks, combat_score in 1/Unit
\* The arithmetic here is exact where the code's is in floats; the entities,
\* healths and combat scores drawn below give floats on the same side of
\* 0.3, 0.4, 0.7 and 0.8 as the exact values (a warden 16 blocks away, seen
\* at health 0 and combat score 0.5, would not: 0.3 exactly,
\* 0.29999999999999993 in floats).
calculate_danger_level(base_danger, distance, agent_health, combat_score) ==
    LET distance_factor == Max(0, 20 - distance)                    \* in 1/20
        combat_factor == Max(Unit \div 2, Unit - combat_score \div 2) \* in 1/Unit
        \* (base/2 * df/20 * hf/10 * cf) / 10; cf is a multiple of Unit/20, so the
        \* division is exact
        raw_danger == base_danger * distance_factor * health_factor(agent_health)
                        * (combat_factor \div (2 * 20 * 10 * 10))
    IN  Min(Unit, Max(0, raw_danger))

\* the Threat built for one entity in the loop of assess_threats
threat_of(agent_position, entity, current_health, combat_score) ==
    LET entity_type == Get(entity, "type", "unknown")
        entity_pos == Position(Get(entity, "x", 0), Get(entity, "y", 0), Get(entity, "z", 0))
        distance == distance_between(agent_position, entity_pos)
    IN  [ entity_type |-> entity_type,
          position |-> entity_pos,
          distance |-> distance,
          danger_level |-> calculate_danger_level(base_danger_of(entity_type), distance,
                                                  current_health, combat_score),
          estimated_health |-> Get(entity, "health", 20) ]

\* a sort that puts a threat before the earlier threats of equal danger
RECURSIVE insert_before_equals(_, _)
insert_before_equals(sorted, t) ==
    IF sorted = <<>> THEN <<t>>
    ELSE IF Head(sorted).danger_level > t.danger_level
         THEN <<Head(sorted)>> \o insert_before_equals(Tail(sorted), t)
         ELSE <<t>> \o sorted

\* list.sort(key=danger_level, reverse=True): stable, equal keys keep input order
RECURSIVE insert_by_danger(_, _)
insert_by_danger(sorted, t) ==
    IF sorted = <<>> THEN <<t>>
    ELSE IF Head(sorted).danger_level >= t.danger_level
         THEN <<Head(sorted)>> \o insert_by_danger(Tail(sorted), t)
         ELSE <<t>> \o sorted

RECURSIVE sort_by_danger(_)
sort_by_danger(threats) ==
    IF threats = <<>> THEN <<>>
    ELSE insert_by_danger(sort_by_danger(SubSeq(threats, 1, Len(threats) - 1)),
                          threats[Len(threats)])

\* threats[:n]
Take(s, n) == SubSeq(s, 1, Min(n, Len(s)))

\* s[-n:]
Last(s, n) == SubSeq(s, Max(1, Len(s) - n + 1), Len(s))

TopThreats == 5

low_threat(t) == t.danger_level < Frac(3, 10)

assess_threats(agent_position, nearby_entities, current_health, combat_score) ==
    LET all == [i \in 1..Len(nearby_entities) |->
                   threat_of(agent_position, nearby_entities[i], current_health, combat_score)]
        threats == SelectSeq(all, LAMBDA t : ~low_threat(t))
    IN  Take(sort_by_danger(threats), TopThreats)

----------------------------------------------------------------------------
(* tactical.py: detect_hazards *)

Hazard(hazard_type, position, severity) ==
    [hazard_type |-> hazard_type, position |-> position, severity |-> severity]

block_pos(block) == Position(Get(block, "x", 0), Get(block, "y", 0), Get(block, "z", 0))

\* the blocks of a dangerous type within their radius, in input order
blocks_in_radius(agent_position, nearby_blocks) ==
    SelectSeq(nearby_blocks, LAMBDA b :
        /\ Get(b, "type", "") \in DOMAIN dangerous_blocks
        /\ distance_between(agent_position, block_pos(b))
             <= dangerous_blocks[Get(b, "type", "")].radius)

\* distance / info["radius"] with radius 0 raises ZeroDivisionError
detect_hazards_raises(agent_position, nearby_blocks) ==
    \E i \in 1..Len(blocks_in_radius(agent_position, nearby_blocks)) :
        dangerous_blocks[Get(blocks_in_radius(agent_position, nearby_blocks)[i], "type", "")].radius = 0

\* info["severity"] * (1.0 - distance / info["radius"])
adjusted_severity(info, distance) ==
    (info.severity * (info.radius - distance) * Unit) \div (10 * info.radius)

fall_hazards(agent_position, nearby_blocks) ==
    LET blocks_below == SelectSeq(nearby_blocks, LAMBDA b : Get(b, "y", 0) < agent_position.y - 1)
        solid_blocks_below == SelectSeq(blocks_below, LAMBDA b : Get(b, "solid", FALSE))
    IN  IF Len(blocks_below) > 5 /\ Len(solid_blocks_below) = 0
        THEN << Hazard("fall",
                       Position(agent_position.x, agent_position.y - 1, agent_position.z),
                       Min(Unit, Frac(Len(blocks_below), 10))) >>
        ELSE <<>>

\* abs(...) < 0.5 on whole coordinates is equality
suffocation_hazards(agent_position, nearby_blocks) ==
    LET head_level_blocks == SelectSeq(nearby_blocks, LAMBDA b :
            /\ Abs(Get(b, "y", 0) - agent_position.y - 1) = 0
            /\ Get(b, "solid", FALSE)
            /\ Abs(Get(b, "x", 0) - agent_position.x) = 0
            /\ Abs(Get(b, "z", 0) - agent_position.z) = 0)
    IN  IF head_level_blocks # <<>>
        THEN << Hazard("suffocation",
                       Position(agent_position.x, agent_position.y + 1, agent_position.z),
                       Frac(9, 10)) >>
        ELSE <<>>

material_hazards(agent_position, nearby_blocks) ==
    LET near == blocks_in_radius(agent_position, nearby_blocks)
    IN  [i \in 1..Len(near) |->
            LET info == dangerous_blocks[Get(near[i], "type", "")]
            IN  Hazard(info.type, block_pos(near[i]),
                       adjusted_severity(info, distance_between(agent_position, block_pos(near[i]))))]

\* list.sort(key=severity, reverse=True): stable
RECURSIVE insert_by_severity(_, _)
insert_by_severity(sorted, h) ==
    IF sorted = <<>> THEN <<h>>
    ELSE IF Head(sorted).severity >= h.severity
         THEN <<Head(sorted)>> \o insert_by_severity(Tail(sorted), h)
         ELSE <<h>> \o sorted

RECURSIVE sort_by_severity(_)
sort_by_severity(hazards) ==
    IF hazards = <<>> THEN <<>>
    ELSE insert_by_severity(sort_by_severity(SubSeq(hazards, 1, Len(hazards) - 1)),
                            hazards[Len(hazards)])

TopHazards == 5

\* the value returned when detect_hazards_raises is false
detect_hazards(agent_position, nearby_blocks) ==
    Take(sort_by_severity(fall_hazards(agent_position, nearby_blocks)
                            \o suffocation_hazards(agent_position, nearby_blocks)
                            \o material_hazards(agent_position, nearby_blocks)),
         TopHazards)

----------------------------------------------------------------------------
(* tactical.py: get_quick_decision *)

TacticalDecision(action, priority, reasoning, target_position, confidence) ==
    [ action |-> action, priority |-> priority, reasoning |-> reasoning,
      target_position |-> target_position, confidence |-> confidence ]

\* 0 if c == 0 else (-1 if c > 0 else 1)
away(c) == IF c = 0 THEN 0 ELSE IF c > 0 THEN -1 ELSE 1

\* the position moved by `step` along x and z
displaced(position, step) ==
    Position(position.x + away(position.x) * step, position.y,
             position.z + away(position.z) * step)

\* the pieces of the f-string, the formatted position and distance left out
flee_from_hazard(hazard) ==
    TacticalDecision("flee", Unit, <<"FATAL HAZARD: ", hazard.hazard_type, " at ">>,
                     Some(displaced(hazard.position, 5)), Unit)

flee_from_threat(threat) ==
    TacticalDecision("flee", Frac(9, 10), <<"DANGER: ", threat.entity_type, " (", " blocks)">>,
                     Some(displaced(threat.position, 10)), Frac(95, 100))

combat_decision(threat) ==
    TacticalDecision("attack", threat.danger_level,
                     <<"ENGAGE: ", threat.entity_type, " at ", " blocks">>,
                     Some(displaced(threat.position, 2)), Frac(8, 10))

hold_position(threat) ==
    TacticalDecision("shield", threat.danger_level,
                     <<"CAUTION: ", threat.entity_type, " detected - hold and observe">>,
                     None, Frac(7, 10))

avoid_hazard(hazard) ==
    TacticalDecision("dodge", hazard.severity, <<"AVOID: ", hazard.hazard_type, " nearby">>,
                     Some(displaced(hazard.position, 3)), Frac(8, 10))

\* a reasoning that never names the mission
continue_mission_unnamed(current_mission) ==
    TacticalDecision("hold", Frac(1, 10), <<"Area clear - continue mission: ", "idle">>,
                     None, Frac(9, 10))

\* current_mission or 'idle': None and the empty string are both falsy
continue_mission(current_mission) ==
    TacticalDecision("hold", Frac(1, 10),
                     << "Area clear - continue mission: ",
                        IF current_mission = None \/ current_mission = Some("")
                        THEN "idle" ELSE current_mission[1] >>,
                     None, Frac(9, 10))

\* a fatal threshold of 0.9
is_fatal_above_09(h) == h.severity > Frac(9, 10)

is_fatal(h) == h.severity > Frac(8, 10)

is_critical(t) == t.danger_level > Frac(7, 10)

\* a fight at a combat score of 0.6 already
fights_critical_from_06(combat_score) == combat_score >= Frac(6, 10)

fights_critical(combat_score) == combat_score > Frac(6, 10)

\* a cascade that looks at the medium hazards before the medium threat
get_quick_decision_hazards_first(threats, hazards, combat_score, current_mission) ==
    LET fatal_hazards == SelectSeq(hazards, is_fatal)
        critical_threats == SelectSeq(threats, is_critical)
        medium_hazards == SelectSeq(hazards, LAMBDA h : h.severity > Frac(4, 10))
    IN  IF fatal_hazards # <<>> THEN flee_from_hazard(fatal_hazards[1])
        ELSE IF critical_threats # <<>>
             THEN IF fights_critical(combat_score)
                  THEN combat_decision(critical_threats[1])
                  ELSE flee_from_threat(critical_threats[1])
        ELSE IF medium_hazards # <<>> THEN avoid_hazard(medium_hazards[1])
        ELSE IF threats # <<>> /\ threats[1].danger_level > Frac(4, 10)
             THEN IF combat_score > Frac(7, 10)
                  THEN combat_decision(threats[1])
                  ELSE hold_position(threats[1])
        ELSE continue_mission(current_mission)

get_quick_decision(threats, hazards, combat_score, current_mission) ==
    LET fatal_hazards == SelectSeq(hazards, is_fatal)
        critical_threats == SelectSeq(threats, is_critical)
        medium_hazards == SelectSeq(hazards, LAMBDA h : h.severity > Frac(4, 10))
    IN  IF fatal_hazards # <<>> THEN flee_from_hazard(fatal_hazards[1])
        ELSE IF critical_threats # <<>>
             THEN IF fights_critical(combat_score)
                  THEN combat_decision(critical_threats[1])
                  ELSE flee_from_threat(critical_threats[1])
        ELSE IF threats # <<>> /\ threats[1].danger_level > Frac(4, 10)
             THEN IF combat_score > Frac(7, 10)
                  THEN combat_decision(threats[1])
                  ELSE hold_position(threats[1])
        ELSE IF medium_hazards # <<>> THEN avoid_hazard(medium_hazards[1])
        ELSE continue_mission(current_mission)

----------------------------------------------------------------------------
(* The tactical engine as a state machine: a call is drawn with its        *)
(* arguments, then the function is applied.                                *)

\* Bounds on the argument lists
MaxThreatsIn == 2
MaxHazardsIn == 2
MaxEntities == 6
MaxBlocks == 3

\* current_health is documented as 0-20
MaxHealth == 20

SeqsUpTo(S, n) == UNION {[1..k -> S] : k \in 0..n}

Range(s) == {s[i] : i \in 1..Len(s)}

Threat(entity_type, position, distance, danger_level, estimated_health) ==
    [ entity_type |-> entity_type, position |-> position, distance |-> distance,
      danger_level |-> danger_level, estimated_health |-> estimated_health ]

ThreatInputs ==
    { Threat("creeper", Position(5, 64, 0), 5, Frac(8, 10), 20),
      Threat("skeleton", Position(-3, 64, 4), 5, Frac(75, 100), 20),
      Threat("zombie", Position(0, 64, 2), 2, Frac(45, 100), 20),
      Threat("spider", Position(6, 64, -8), 10, Frac(7, 10), 16),
      Threat("slime", Position(2, 64, 0), 2, Frac(35, 100), 4) }

HazardInputs ==
    { Hazard("lava", Position(5, 64, 0), Unit),
      Hazard("suffocation", Position(0, 65, 0), Frac(9, 10)),
      Hazard("fire", Position(-1, 64, 1), Frac(8, 10)),
      Hazard("damage", Position(0, 64, 0), Frac(3, 10)) }

CombatScores == {0, Frac(3, 10), Frac(6, 10), Frac(7, 10), Frac(8, 10), Unit}

Missions == {None, Some(""), Some("build-shelter")}

EntityInputs ==
    { [type |-> "warden", x |-> 5, y |-> 64, z |-> 0, health |-> 500],
      [type |-> "warden", x |-> -5, y |-> 64, z |-> 0, health |-> 400],
      [type |-> "creeper", x |-> 3, y |-> 64, z |-> 4, health |-> 20] }

HealthInputs == {20, 12, 7, 3}

AgentPositions == {Position(0, 64, 0)}

DangerTypes == {"warden", "creeper", "zombie", "villager", "chicken"}

Distances == {0, 5, 10, 19, 20, 25}

NoCall == [op |-> "none", args |-> <<>>, result |-> <<>>, done |-> FALSE]

NewCall(op, args) == [op |-> op, args |-> args, result |-> <<>>, done |-> FALSE]

DrawDecision ==
    \E th \in SeqsUpTo(ThreatInputs, MaxThreatsIn), hz \in SeqsUpTo(HazardInputs, MaxHazardsIn),
       cs \in CombatScores, m \in Missions :
        call = NewCall("get_quick_decision",
                       [threats |-> th, hazards |-> hz, combat_score |-> cs, current_mission |-> m])

\* the entities of test_assess_threats_zombie and test_assess_threats_multiple
TestZombie == [type |-> "zombie", x |-> 5, y |-> 64, z |-> 0, health |-> 20]
TestCreeper == [type |-> "creeper", x |-> 10, y |-> 64, z |-> 0, health |-> 20]
TestChicken == [type |-> "chicken", x |-> 15, y |-> 64, z |-> 0, health |-> 10]
TestEntityLists == {<<TestZombie>>, <<TestCreeper>>, <<TestZombie, TestCreeper, TestChicken>>}

DrawAssess ==
    \E p \in AgentPositions, es \in SeqsUpTo(EntityInputs, MaxEntities) \cup TestEntityLists,
       h \in HealthInputs, cs \in {0, Frac(5, 10), Unit} :
        call = NewCall("assess_threats",
                       [agent_position |-> p, nearby_entities |-> es,
                        current_health |-> h, combat_score |-> cs])

\* one entity (type, distance, combat score) seen at two healths, lower < higher
\* adjust_pathfinding_for_threats: math.sqrt(...) < 5.0 on integer
\* coordinates, compared as squares
too_close(waypoint, position) ==
    (waypoint.x - position.x) * (waypoint.x - position.x)
      + (waypoint.y - position.y) * (waypoint.y - position.y)
      + (waypoint.z - position.z) * (waypoint.z - position.z) < 25

too_dangerous(waypoint, threats, hazards) ==
    \/ \E i \in 1..Len(threats) :
          too_close(waypoint, threats[i].position) /\ threats[i].danger_level > Frac(5, 10)
    \/ \E i \in 1..Len(hazards) :
          too_close(waypoint, hazards[i].position) /\ hazards[i].severity > Frac(4, 10)

\* variant: the safe waypoints with no fallback to the destination
adjust_pathfinding_without_fallback(current_path, threats, hazards) ==
    SelectSeq(current_path, LAMBDA w : ~too_dangerous(w, threats, hazards))

adjust_pathfinding_for_threats(current_path, threats, hazards) ==
    LET adjusted_path == SelectSeq(current_path, LAMBDA w : ~too_dangerous(w, threats, hazards))
    IN  IF current_path = <<>> THEN current_path
        ELSE IF adjusted_path = <<>> THEN <<current_path[Len(current_path)]>>
        ELSE adjusted_path

MaxPath == 3
MaxPathDangers == 1

Waypoints == {Position(0, 64, 0), Position(1, 64, 0), Position(5, 64, 0), Position(10, 64, 0)}
PathThreats == {t \in ThreatInputs : t.entity_type \in {"creeper", "zombie"}}
PathHazards == {h \in HazardInputs : h.hazard_type \in {"fire", "damage"}}

DrawPath ==
    \E path \in SeqsUpTo(Waypoints, MaxPath), ts \in SeqsUpTo(PathThreats, MaxPathDangers),
       hs \in SeqsUpTo(PathHazards, MaxPathDangers) :
        call = NewCall("adjust_pathfinding_for_threats",
                       [current_path |-> path, threats |-> ts, hazards |-> hs])

DrawDanger ==
    \E ty \in DangerTypes, d \in Distances, cs \in {0, Frac(5, 10), Unit},
       lower \in 0..MaxHealth, higher \in 0..MaxHealth :
        /\ lower < higher
        /\ call = NewCall("calculate_danger_level",
                          [entity_type |-> ty, distance |-> d, combat_score |-> cs,
                           lower |-> lower, higher |-> higher])

BlockInputs ==
    { [type |-> "lava", x |-> 2, y |-> 64, z |-> 0, solid |-> FALSE],
      [type |-> "lava", x |-> 0, y |-> 64, z |-> 3, solid |-> FALSE],
      [type |-> "lava", x |-> 4, y |-> 64, z |-> 0, solid |-> FALSE],
      [type |-> "fire", x |-> 1, y |-> 64, z |-> 0, solid |-> FALSE],
      [type |-> "stone", x |-> 0, y |-> 65, z |-> 0, solid |-> TRUE],
      [type |-> "cactus", x |-> 0, y |-> 64, z |-> 0, solid |-> TRUE] }

\* n air blocks in a column under the agent of AgentPositions, from y = 62
\* down, the one at place `solid_at` solid (none when 0)
Column(n, solid_at) ==
    [i \in 1..n |-> [type |-> "air", x |-> 0, y |-> 63 - i, z |-> 0, solid |-> (i = solid_at)]]

\* n lava blocks one block away from the agent
LavaRow(n) == [i \in 1..n |-> [type |-> "lava", x |-> 1, y |-> 64, z |-> 0, solid |-> FALSE]]

\* longer block lists: a void below the agent, a floor in it, more hazards
\* than are returned
BlockLists ==
    { Column(5, 0), Column(6, 0), Column(13, 0), Column(6, 3),
      LavaRow(6), LavaRow(5) \o Column(6, 0), Column(6, 0) \o LavaRow(2),
      << [type |-> "fire", x |-> 1, y |-> 64, z |-> 0, solid |-> FALSE] >> \o Column(6, 0)
         \o LavaRow(1) }

DrawHazards ==
    \E p \in AgentPositions, bs \in SeqsUpTo(BlockInputs, MaxBlocks) \cup BlockLists :
        call = NewCall("detect_hazards", [agent_position |-> p, nearby_blocks |-> bs])

ApplyDecision ==
    /\ call.op = "get_quick_decision" /\ ~call.done
    /\ call' = [call EXCEPT !.done = TRUE,
                  !.result = get_quick_decision(call.args.threats, call.args.hazards,
                                                call.args.combat_score, call.args.current_mission)]
    /\ UNCHANGED <<fleet_vars, actor_vars, sync_vars, now>>

ApplyAssess ==
    /\ call.op = "assess_threats" /\ ~call.done
    /\ call' = [call EXCEPT !.done = TRUE,
                  !.result = assess_threats(call.args.agent_position, call.args.nearby_entities,
                                            call.args.current_health, call.args.combat_score)]
    /\ UNCHANGED <<fleet_vars, actor_vars, sync_vars, now>>

ApplyDanger ==
    /\ call.op = "calculate_danger_level" /\ ~call.done
    /\ call' = [call EXCEPT !.done = TRUE,
                  !.result = [ lower |-> calculate_danger_level(
                                            base_danger_of(call.args.entity_type),
                                            call.args.distance, call.args.lower,
                                            call.args.combat_score),
                               higher |-> calculate_danger_level(
                                            base_danger_of(call.args.entity_type),
                                            call.args.distance, call.args.higher,
                                            call.args.combat_score) ]]
    /\ UNCHANGED <<fleet_vars, actor_vars, sync_vars, now>>

ApplyPath ==
    /\ call.op = "adjust_pathfinding_for_threats" /\ ~call.done
    /\ call' = [call EXCEPT !.done = TRUE,
                  !.result = adjust_pathfinding_for_threats(
                                 call.args.current_path, call.args.threats, call.args.hazards)]
    /\ UNCHANGED <<fleet_vars, actor_vars, sync_vars, now>>

\* the result is [raised, value]: ZeroDivisionError, or the hazards returned
ApplyHazards ==
    /\ call.op = "detect_hazards" /\ ~call.done
    /\ call' = [call EXCEPT !.done = TRUE,
                  !.result =
                     IF detect_hazards_raises(call.args.agent_position, call.args.nearby_blocks)
                     THEN [raised |-> TRUE, value |-> <<>>]
                     ELSE [raised |-> FALSE,
                           value |-> detect_hazards(call.args.agent_position,
                                                    call.args.nearby_blocks)]]
    /\ UNCHANGED <<fleet_vars, actor_vars, sync_vars, now>>

----------------------------------------------------------------------------
(* index.py: AgentState, its serialization, load and save                  *)

AgentId == "agent-1"

\* the cap of telemetry_events
TelemetryCap == 100

AgentStatusValues == {"idle", "planning", "executing", "waiting", "combat", "error"}

\* A machine is the actor's memory and its storage: [mem, store].  A step of a
\* handler is an outcome: the machine it leaves and either a value or the
\* exception raised.
Machine(mem, store) == [mem |-> mem, store |-> store]

Returned(M, value) == [M |-> M, raised |-> FALSE, value |-> value, error |-> ""]

Raised(M, error) == [M |-> M, raised |-> TRUE, value |-> <<>>, error |-> error]

\* AgentState(agent_id, status=IDLE, position=(0,64,0), health=20, hunger=20)
new_state(t) ==
    [ agent_id |-> AgentId, status |-> "idle", position |-> Position(0, 64, 0),
      health |-> 20, hunger |-> 20, current_task |-> None, inventory_slots |-> 36,
      last_active |-> t, active_threats |-> <<>>, known_hazards |-> <<>>,
      mission_queue |-> <<>>, telemetry_events |-> <<>> ]

\* index.py has its own Threat and Hazard, which define to_dict; the threats
\* and hazards the handlers store are the tactical module's dataclasses, which
\* do not.  An object of index.py carries the field `module`.
IndexThreat(entity_type, position, distance, danger_level, estimated_health) ==
    [ module |-> "index", entity_type |-> entity_type, position |-> position,
      distance |-> distance, danger_level |-> danger_level,
      estimated_health |-> estimated_health ]

IndexHazard(hazard_type, position, severity) ==
    [ module |-> "index", hazard_type |-> hazard_type, position |-> position,
      severity |-> severity ]

has_to_dict(x) == "module" \in DOMAIN x

\* Threat.to_dict
threat_to_dict(t) ==
    [ entityType |-> t.entity_type, position |-> t.position, distance |-> t.distance,
      dangerLevel |-> t.danger_level, estimatedHealth |-> t.estimated_health ]

\* Hazard.to_dict
hazard_to_dict(h) ==
    [ hazardType |-> h.hazard_type, position |-> h.position, severity |-> h.severity ]

\* t.to_dict() on an object without to_dict raises AttributeError
serialize_raises(state) ==
    \/ \E i \in 1..Len(state.active_threats) : ~has_to_dict(state.active_threats[i])
    \/ \E i \in 1..Len(state.known_hazards) : ~has_to_dict(state.known_hazards[i])

\* _serialize_state, defined when serialize_raises is false
serialize_state(state) ==
    [ agentId |-> state.agent_id, status |-> state.status, position |-> state.position,
      health |-> state.health, hunger |-> state.hunger, currentTask |-> state.current_task,
      inventorySlots |-> state.inventory_slots, lastActive |-> state.last_active,
      activeThreats |-> [i \in 1..Len(state.active_threats) |->
                            threat_to_dict(state.active_threats[i])],
      knownHazards |-> [i \in 1..Len(state.known_hazards) |->
                           hazard_to_dict(state.known_hazards[i])],
      missionQueue |-> state.mission_queue,
      telemetryEvents |-> Last(state.telemetry_events, TelemetryCap) ]

\* Threat(**t) / Hazard(**h) on the camelCase keys of a stored entry raises TypeError
deserialize_raises(data) == data.activeThreats # <<>> \/ data.knownHazards # <<>>

\* _deserialize_state, defined when deserialize_raises is false
deserialize_state(data) ==
    [ agent_id |-> data.agentId, status |-> data.status, position |-> data.position,
      health |-> data.health, hunger |-> data.hunger, current_task |-> data.currentTask,
      inventory_slots |-> data.inventorySlots, last_active |-> data.lastActive,
      active_threats |-> <<>>, known_hazards |-> <<>>,
      mission_queue |-> data.missionQueue, telemetry_events |-> data.telemetryEvents ]

\* _deserialize_state(_serialize_state(state)): [raised, error, value]
round_trip(state) ==
    IF serialize_raises(state) THEN [raised |-> TRUE, error |-> "AttributeError", value |-> <<>>]
    ELSE IF deserialize_raises(serialize_state(state))
         THEN [raised |-> TRUE, error |-> "TypeError", value |-> <<>>]
    ELSE [raised |-> FALSE, error |-> "",
          value |-> deserialize_state(serialize_state(state))]

\* _save_state: serialize, put, then stamp last_active
save_state(M, ok, t) ==
    IF M.mem = None THEN Returned(M, <<>>)
    ELSE IF serialize_raises(M.mem[1]) THEN Raised(M, "AttributeError")
    ELSE IF ~ok THEN Raised(M, "StorageError")
    ELSE Returned(Machine(Some([M.mem[1] EXCEPT !.last_active = t]),
                          Some(serialize_state(M.mem[1]))), <<>>)

\* a load that starts from the defaults whatever the storage holds
ensure_loaded_from_defaults(M, ok, t) ==
    IF M.mem # None THEN Returned(M, <<>>)
    ELSE IF ~ok THEN Raised(M, "StorageError")
    ELSE save_state(Machine(Some(new_state(t)), M.store), ok, t)

\* _ensure_loaded
ensure_loaded(M, ok, t) ==
    IF M.mem # None THEN Returned(M, <<>>)
    ELSE IF ~ok THEN Raised(M, "StorageError")
    ELSE IF M.store # None
         THEN IF deserialize_raises(M.store[1]) THEN Raised(M, "TypeError")
              ELSE Returned(Machine(Some(deserialize_state(M.store[1])), M.store), <<>>)
         ELSE save_state(Machine(Some(new_state(t)), M.store), ok, t)

\* the arrival number of the next telemetry event (a ghost field of the model:
\* the code stamps the event with the time)
next_n(events) == IF events = <<>> THEN 1 ELSE events[Len(events)].n + 1

\* append_event trimming with [:100]: the oldest 100 are kept
append_event_keep_oldest(events, event_type, data) ==
    Take(Append(events, [type |-> event_type, data |-> data, n |-> next_n(events)]),
         TelemetryCap)

\* append, then keep the last 100
append_event(events, event_type, data) ==
    Last(Append(events, [type |-> event_type, data |-> data, n |-> next_n(events)]),
         TelemetryCap)

\* _log_telemetry, once _ensure_loaded has answered `l`
log_telemetry_loaded(l, ok, t, event_type, data) ==
    IF l.raised THEN l
    ELSE save_state(Machine(Some([l.M.mem[1] EXCEPT !.telemetry_events =
                                     append_event(@, event_type, data)]),
                            l.M.store), ok, t)

\* _log_telemetry
log_telemetry(M, ok, t, event_type, data) ==
    log_telemetry_loaded(ensure_loaded(M, ok, t), ok, t, event_type, data)

\* _log_error
log_error(M, ok, t, context, message) ==
    log_telemetry(M, ok, t, "error", [context |-> context, message |-> message])

----------------------------------------------------------------------------
(* index.py: the request handlers.  A request is [path, method, body]; a    *)
(* returned value is the Response, [code, body].                            *)

Response(code, body) == [code |-> code, body |-> body]

\* the fields of a POST /sync body applied in order; AgentStatus(value) raises
\* ValueError on a value that is no status, after position has been applied
set_position(state, body) ==
    IF "position" \in DOMAIN body THEN [state EXCEPT !.position = body.position] ELSE state

set_status(state, body) ==
    IF "status" \in DOMAIN body THEN [state EXCEPT !.status = body.status] ELSE state

\* a merge that takes the agent id of the body as well
set_health_and_agent_id(state, body) ==
    IF "health" \in DOMAIN body
    THEN [state EXCEPT !.health = body.health,
                       !.agent_id = Get(body, "agentId", state.agent_id)]
    ELSE state

set_health(state, body) ==
    IF "health" \in DOMAIN body THEN [state EXCEPT !.health = body.health] ELSE state

set_hunger(state, body) ==
    IF "hunger" \in DOMAIN body THEN [state EXCEPT !.hunger = body.hunger] ELSE state

set_current_task(state, body) ==
    IF "currentTask" \in DOMAIN body
    THEN [state EXCEPT !.current_task = body.currentTask] ELSE state

add_mission(state, body) ==
    IF "mission" \in DOMAIN body
    THEN [state EXCEPT !.mission_queue = Append(@, body.mission)] ELSE state

apply_sync_body(state, body) ==
    IF "status" \in DOMAIN body /\ body.status \notin AgentStatusValues
    THEN [raised |-> TRUE, state |-> set_position(state, body)]
    ELSE [raised |-> FALSE,
          state |-> add_mission(set_current_task(set_hunger(set_health(
                        set_status(set_position(state, body), body), body), body), body), body)]

\* the end of POST /sync, once _save_state has answered `sv`
sync_saved(sv) ==
    IF sv.raised THEN sv
    ELSE Returned(sv.M, Response(200, [status |-> "synced",
                                       agentId |-> sv.M.mem[1].agent_id]))

\* POST /sync with the body applied as `a`
sync_post(M, a, ok, t) ==
    IF a.raised THEN Raised(Machine(Some(a.state), M.store), "ValueError")
    ELSE sync_saved(save_state(Machine(Some(a.state), M.store), ok, t))

\* _handle_sync, once _ensure_loaded has answered `l`
sync_loaded(l, ok, t, req) ==
    IF l.raised THEN l
    ELSE IF req.method = "GET"
         THEN IF serialize_raises(l.M.mem[1]) THEN Raised(l.M, "AttributeError")
              ELSE Returned(l.M, Response(200, serialize_state(l.M.mem[1])))
    ELSE IF req.method = "POST"
         THEN sync_post(l.M, apply_sync_body(l.M.mem[1], req.body), ok, t)
    ELSE Returned(l.M, Response(405, [error |-> "Method not allowed"]))

\* _handle_sync
handle_sync(M, ok, t, req) == sync_loaded(ensure_loaded(M, ok, t), ok, t, req)

\* `not mission`: an absent, null or empty payload
missing_mission(body) == Get(body, "mission", "") = ""

\* mission_queue.append(mission)
enqueue(queue, mission) == Append(queue, mission)

\* dequeue as pop(): the newest entry is taken
dequeue_newest(queue) ==
    [completed |-> queue[Len(queue)], rest |-> SubSeq(queue, 1, Len(queue) - 1)]

\* mission_queue.pop(0): the entry returned and the queue left
dequeue(queue) == [completed |-> Head(queue), rest |-> Tail(queue)]

\* the end of POST /mission, once _save_state has answered `sv`
mission_queued(sv) ==
    IF sv.raised THEN sv
    ELSE Returned(sv.M, Response(200, [status |-> "queued",
                                       queueLength |-> Len(sv.M.mem[1].mission_queue)]))

\* the end of DELETE /mission, `d` popped and _save_state having answered `sv`
mission_completed(sv, d) ==
    IF sv.raised THEN sv
    ELSE Returned(sv.M, Response(200, [completed |-> d.completed]))

\* DELETE /mission on a queue that is not empty
mission_pop(M, d, ok, t) ==
    mission_completed(
        save_state(Machine(Some([M.mem[1] EXCEPT !.mission_queue = d.rest]), M.store), ok, t),
        d)

\* an empty queue answered as a completion of nothing
no_missions_completed(M) == Returned(M, Response(200, [completed |-> None]))

\* DELETE /mission on an empty queue
no_missions(M) == Returned(M, Response(404, [error |-> "No missions to complete"]))

\* _handle_mission, once _ensure_loaded has answered `l`
mission_loaded(l, ok, t, req) ==
    IF l.raised THEN l
    ELSE IF req.method = "GET"
         THEN Returned(l.M, Response(200, [agentId |-> l.M.mem[1].agent_id,
                                           missions |-> l.M.mem[1].mission_queue,
                                           current |-> l.M.mem[1].current_task]))
    ELSE IF req.method = "POST"
         THEN IF missing_mission(req.body)
              THEN Returned(l.M, Response(400, [error |-> "Missing mission"]))
              ELSE mission_queued(
                       save_state(Machine(Some([l.M.mem[1] EXCEPT !.mission_queue =
                                                   enqueue(@, req.body.mission)]),
                                          l.M.store), ok, t))
    ELSE IF req.method = "DELETE"
         THEN IF l.M.mem[1].mission_queue # <<>>
              THEN mission_pop(l.M, dequeue(l.M.mem[1].mission_queue), ok, t)
              ELSE no_missions(l.M)
    ELSE Returned(l.M, Response(405, [error |-> "Method not allowed"]))

\* _handle_mission
handle_mission(M, ok, t, req) == mission_loaded(ensure_loaded(M, ok, t), ok, t, req)

\* get_quick_decision returns the tactical module's TacticalDecision, which
\* defines no to_dict: decision.to_dict() raises AttributeError
decision_has_to_dict == FALSE

\* the end of _handle_tactical, once the last _save_state has answered `sv`
tactical_saved(sv, t, decision, threats, hazards) ==
    IF sv.raised THEN sv
    ELSE Returned(sv.M, Response(200, [decision |-> decision, threats |-> threats,
                                       hazards |-> hazards, timestamp |-> t]))

\* _handle_tactical from "Log telemetry" on, _log_telemetry having answered `lg`
tactical_logged(lg, ok, t, decision, threats, hazards) ==
    IF lg.raised THEN lg
    ELSE tactical_saved(save_state(lg.M, ok, t), t, decision, threats, hazards)

\* _handle_tactical from decision.to_dict() on
tactical_decided(M, ok, t, decision, threats, hazards) ==
    IF ~decision_has_to_dict THEN Raised(M, "AttributeError")
    ELSE tactical_logged(log_telemetry(M, ok, t, "tactical",
                                       [decision |-> decision, threats |-> Len(threats),
                                        hazards |-> Len(hazards)]),
                         ok, t, decision, threats, hazards)

\* an update that puts the agent in combat when there are threats
tactical_assessed_in_combat(M, state, ok, t, threats, hazards, current_health, combat_score) ==
    tactical_decided(
        Machine(Some([state EXCEPT !.active_threats = threats, !.known_hazards = hazards,
                                   !.health = current_health,
                                   !.status = IF threats # <<>> THEN "combat" ELSE @]),
                M.store),
        ok, t,
        get_quick_decision(threats, hazards, combat_score, state.current_task),
        threats, hazards)

\* _handle_tactical from "Update state" on
tactical_assessed(M, state, ok, t, threats, hazards, current_health, combat_score) ==
    tactical_decided(
        Machine(Some([state EXCEPT !.active_threats = threats, !.known_hazards = hazards,
                                   !.health = current_health]), M.store),
        ok, t,
        get_quick_decision(threats, hazards, combat_score, state.current_task),
        threats, hazards)

\* _handle_tactical from "Extract tactical context" on, position updated in `state`;
\* combat_score is not passed on to assess_threats, which uses its default 0.5
tactical_context(M, state, ok, t, body) ==
    IF detect_hazards_raises(state.position, Get(body, "nearbyBlocks", <<>>))
    THEN Raised(Machine(Some(state), M.store), "ZeroDivisionError")
    ELSE tactical_assessed(M, state, ok, t,
             assess_threats(state.position, Get(body, "nearbyEntities", <<>>),
                            Get(body, "health", state.health), Frac(5, 10)),
             detect_hazards(state.position, Get(body, "nearbyBlocks", <<>>)),
             Get(body, "health", state.health),
             Get(body, "combatScore", 0))

\* _handle_tactical, once _ensure_loaded has answered `l`
tactical_loaded(l, ok, t, req) ==
    IF l.raised THEN l
    ELSE IF req.method # "POST"
         THEN Returned(l.M, Response(405, [error |-> "Method not allowed"]))
    ELSE tactical_context(l.M, set_position(l.M.mem[1], req.body), ok, t, req.body)

\* _handle_tactical
handle_tactical(M, ok, t, req) == tactical_loaded(ensure_loaded(M, ok, t), ok, t, req)

\* the end of _handle_telemetry, once _log_telemetry has answered `lg`
telemetry_logged(lg) ==
    IF lg.raised THEN lg ELSE Returned(lg.M, Response(200, [status |-> "logged"]))

\* _handle_telemetry, once _ensure_loaded has answered `l`
telemetry_loaded(l, ok, t, req) ==
    IF l.raised THEN l
    ELSE IF req.method # "POST"
         THEN Returned(l.M, Response(405, [error |-> "Method not allowed"]))
    ELSE telemetry_logged(log_telemetry(l.M, ok, t, Get(req.body, "type", "unknown"),
                                        Get(req.body, "data", <<>>)))

\* _handle_telemetry
handle_telemetry(M, ok, t, req) == telemetry_loaded(ensure_loaded(M, ok, t), ok, t, req)

\* a health check that loads the stored state as the other handlers do
handle_health_loading(M) ==
    IF M.mem = None /\ M.store # None /\ ~deserialize_raises(M.store[1])
    THEN Returned(Machine(Some(deserialize_state(M.store[1])), M.store),
                  Response(200, [status |-> "healthy", agentId |-> M.store[1].agentId]))
    ELSE Returned(M, Response(200, [status |-> "healthy",
                                    agentId |-> IF M.mem # None THEN M.mem[1].agent_id
                                                ELSE "uninitialized"]))

\* _handle_health
handle_health(M) ==
    Returned(M, Response(200, [status |-> "healthy",
                               agentId |-> IF M.mem # None THEN M.mem[1].agent_id
                                           ELSE "uninitialized"]))

\* the routing of fetch, by path suffix
route(M, ok, t, req) ==
    IF req.path = "/sync" THEN handle_sync(M, ok, t, req)
    ELSE IF req.path = "/mission" THEN handle_mission(M, ok, t, req)
    ELSE IF req.path = "/tactical" THEN handle_tactical(M, ok, t, req)
    ELSE IF req.path = "/telemetry" THEN handle_telemetry(M, ok, t, req)
    ELSE IF req.path = "/health" THEN handle_health(M)
    ELSE Returned(M, Response(404, [error |-> "Not found", path |-> req.path]))

\* the end of the except branch, once _log_error has answered `lg`: an
\* exception raised by _log_error itself leaves fetch
recovered(lg, message) ==
    IF lg.raised THEN lg
    ELSE Returned(lg.M, Response(500, [error |-> "Internal server error",
                                       message |-> message]))

\* fetch, the handler having answered `h`
fetch_routed(h, ok, t) ==
    IF h.raised THEN recovered(log_error(h.M, ok, t, "fetch", h.error), h.error) ELSE h

\* AgentStateDO.fetch
fetch(M, ok, t, req) == fetch_routed(route(M, ok, t, req), ok, t)

----------------------------------------------------------------------------
(* sync.py: SyncState, SyncManager, TelemetryLogger and the periodic driver.*)
(* The sends to Foreman are not written yet (_send_to_foreman and           *)
(* _get_from_foreman are called in comments only, lines 105, 154, 186):     *)
(* each is a point where the coordinator answers or the call raises, and    *)
(* a handler takes that outcome as a parameter.                             *)

\* ForemanConfig.sync_interval_seconds
SyncIntervalSeconds == 5

\* "Keep only last 10 pending updates"
PendingCap == 10

\* TelemetryLogger.buffer_size
BufferSize == 100

\* What the name sync_state yields on the manager.  SyncManager.__init__
\* assigns the SyncState to self.sync_state, so on a manager it builds the
\* instance attribute hides the method of the same name: "attribute".  The
\* name reaches the method of lines 82-137 only on a manager that keeps the
\* SyncState out of the way of that name: "method".
ManagerKinds == {"attribute", "method"}

\* SyncState()
new_sync_state ==
    [ last_sync |-> None, last_sync_success |-> TRUE, sync_failures |-> 0,
      last_error |-> None, pending_updates |-> <<>> ]

\* the outcome of a manager call: the SyncState it leaves and what it
\* returned or raised
Outcome(ss, raised, error, value) ==
    [ss |-> ss, raised |-> raised, error |-> error, value |-> value]

should_sync(ss, t) ==
    \/ ss.last_sync = None
    \/ t - ss.last_sync[1] >= SyncIntervalSeconds

\* the coordinator's answer to a sync, as simulated at lines 108-112
sync_response == [status |-> "synced", missions |-> <<>>, configUpdates |-> <<>>]

\* the body of SyncManager.sync_state; `sent` is the outcome of the send
sync_state_method(ss, agent_state, t, sent) ==
    LET started == [ss EXCEPT !.last_sync = Some(t)]
    IN  IF sent
        THEN Outcome([started EXCEPT !.pending_updates = <<>>,
                                     !.last_sync_success = TRUE,
                                     !.sync_failures = 0,
                                     !.last_error = None],
                     FALSE, "", sync_response)
        ELSE Outcome([started EXCEPT !.last_sync_success = FALSE,
                                     !.sync_failures = @ + 1,
                                     !.last_error = Some("ConnectionError"),
                                     !.pending_updates =
                                        Last(Append(@, [timestamp |-> t, state |-> agent_state]),
                                             PendingCap)],
                     TRUE, "ConnectionError", <<>>)

\* a payload that leaves the pending updates out
sync_payload_without_pending(ss, agent_state, t) ==
    [ agentId |-> AgentId, timestamp |-> t, state |-> agent_state, pendingUpdates |-> <<>> ]

\* "Prepare sync payload"
sync_payload(ss, agent_state, t) ==
    [ agentId |-> AgentId, timestamp |-> t, state |-> agent_state,
      pendingUpdates |-> ss.pending_updates ]

\* manager.sync_state(agent_state): calling the SyncState raises TypeError
\* before any statement of the method runs
call_sync_state(kind, ss, agent_state, t, sent) ==
    IF kind = "attribute"
    THEN Outcome(ss, TRUE, "TypeError", <<>>)
    ELSE sync_state_method(ss, agent_state, t, sent)

\* get_missions: the missions pulled, or [] and the error recorded
get_missions(ss, pulled, ok) ==
    IF ok THEN Outcome(ss, FALSE, "", pulled)
    ELSE Outcome([ss EXCEPT !.last_error = Some("ConnectionError")], FALSE, "", <<>>)

send_telemetry(ss, events, ok) ==
    IF events = <<>> THEN Outcome(ss, FALSE, "", TRUE)
    ELSE IF ok THEN Outcome(ss, FALSE, "", TRUE)
    ELSE Outcome([ss EXCEPT !.last_error = Some("ConnectionError")], FALSE, "", FALSE)

\* a report that raises when the coordinator fails
soft_send_raising(ss, ok) ==
    IF ok THEN Outcome(ss, FALSE, "", TRUE)
    ELSE Outcome(ss, TRUE, "ConnectionError", <<>>)

\* try: send; return True / except: record the error; return False
soft_send(ss, ok) ==
    IF ok THEN Outcome(ss, FALSE, "", TRUE)
    ELSE Outcome([ss EXCEPT !.last_error = Some("ConnectionError")], FALSE, "", FALSE)

send_heartbeat(ss, ok) == soft_send(ss, ok)

report_mission_complete(ss, mission_id, result, ok) == soft_send(ss, ok)

report_mission_failed(ss, mission_id, error, ok) == soft_send(ss, ok)

\* TelemetryLogger.log
log(buf, event_type, t, n) ==
    Last(Append(buf, [event_type |-> event_type, timestamp |-> t, n |-> n]), BufferSize)

\* TelemetryLogger.clear_events()
clear_events(buf) == <<>>

\* TelemetryLogger(agent_id, buffer_size).log
log_sized(buf, buffer_size, event_type, t, n) ==
    Last(Append(buf, [event_type |-> event_type, timestamp |-> t, n |-> n]), buffer_size)

\* TelemetryLogger.clear_events(before)
clear_events_before(buf, before) ==
    IF before = None THEN <<>> ELSE SelectSeq(buf, LAMBDA e : e.timestamp >= before[1])

\* list.sort(key=timestamp, reverse=True): stable, newest first
RECURSIVE insert_by_timestamp(_, _)
insert_by_timestamp(sorted, e) ==
    IF sorted = <<>> THEN <<e>>
    ELSE IF Head(sorted).timestamp >= e.timestamp
         THEN <<Head(sorted)>> \o insert_by_timestamp(Tail(sorted), e)
         ELSE <<e>> \o sorted

RECURSIVE sort_by_timestamp(_)
sort_by_timestamp(events) ==
    IF events = <<>> THEN <<>>
    ELSE insert_by_timestamp(sort_by_timestamp(SubSeq(events, 1, Len(events) - 1)),
                             events[Len(events)])

\* the events of get_events before sorting: the buffer itself without a
\* filter, a new list with one
filtered_events(buf, event_type, since) ==
    LET by_type == IF event_type = None THEN buf
                   ELSE SelectSeq(buf, LAMBDA e : e.event_type = event_type[1])
    IN  IF since = None THEN by_type
        ELSE SelectSeq(by_type, LAMBDA e : e.timestamp >= since[1])

\* TelemetryLogger.get_events: [buffer, value]; events.sort sorts the list
\* `events` names, which is self.buffer when no filter applies
get_events(buf, event_type, since, limit) ==
    LET sorted == sort_by_timestamp(filtered_events(buf, event_type, since))
    IN  [ buffer |-> IF event_type = None /\ since = None THEN sorted ELSE buf,
          value |-> Take(sorted, limit) ]

\* the result dict of the driver
SyncResult(synced, missions, configUpdates, telemetrySent) ==
    [ synced |-> synced, missions |-> missions, configUpdates |-> configUpdates,
      telemetrySent |-> telemetrySent ]

\* what a run of the driver leaves: the SyncState, the buffer, the result or
\* the error, and what send_telemetry reported ("none" when it was not called)
Driven(ss, buf, raised, error, value, telemetry) ==
    [ ss |-> ss, buffer |-> buf, raised |-> raised, error |-> error, value |-> value,
      telemetry |-> telemetry ]

\* a driver that clears the buffer whatever the send reported
after_send_clear_always(buf, telemetry_sent) == clear_events(buf)

\* "Clear sent events"
after_send(buf, telemetry_sent) == IF telemetry_sent THEN clear_events(buf) ELSE buf

\* the driver from "Send telemetry" on
driver_telemetry(missions, configUpdates, buf, sent) ==
    Driven(sent.ss, after_send(buf, sent.value), FALSE, "",
           SyncResult(TRUE, missions, configUpdates, sent.value),
           IF sent.value THEN "sent" ELSE "failed")

\* the driver from "Get new missions" on
driver_missions(synced, got, buf, telemetry_ok) ==
    IF buf # <<>>
    THEN driver_telemetry(synced.value.missions \o got.value, synced.value.configUpdates, buf,
                          send_telemetry(got.ss, buf, telemetry_ok))
    ELSE Driven(got.ss, buf, FALSE, "",
                SyncResult(TRUE, synced.value.missions \o got.value,
                           synced.value.configUpdates, FALSE),
                "none")

\* the driver from "Sync state" on
driver_synced(synced, buf, env) ==
    IF synced.raised
    THEN Driven(synced.ss, buf, TRUE, synced.error, <<>>, "none")
    ELSE driver_missions(synced, get_missions(synced.ss, env.pulled, env.missions_ok), buf,
                         env.telemetry_ok)

\* env: the outcomes of the coordinator calls of this run
perform_periodic_sync(kind, ss, buf, agent_state, t, env) ==
    IF ~should_sync(ss, t)
    THEN Driven(ss, buf, FALSE, "", SyncResult(FALSE, <<>>, <<>>, FALSE), "none")
    ELSE driver_synced(call_sync_state(kind, ss, agent_state, t, env.sync_ok), buf, env)

----------------------------------------------------------------------------
(* The actor as a state machine *)

\* Bounds: queue length, events appended in one run
MaxQueue == 2
MaxAppends == 2
MaxCapAppends == 2
MaxInFlight == 2

Request(path, method, body) == [path |-> path, method |-> method, body |-> body]

SyncBodies ==
    { [position |-> Position(3, 64, 0), status |-> "combat"],
      [agentId |-> "agent-2", health |-> 7, hunger |-> 10, currentTask |-> Some("mine")],
      [position |-> Position(3, 64, 0), status |-> "flying", mission |-> "A"],
      [mission |-> "B"] }

MissionBodies == { <<>>, [mission |-> ""], [mission |-> "A"] }

TacticalBodies ==
    { <<>>,
      [nearbyEntities |-> << [type |-> "warden", x |-> 0, y |-> 64, z |-> 0] >>,
       health |-> 7, combatScore |-> Frac(8, 10)],
      [nearbyBlocks |-> << [type |-> "cactus", x |-> 0, y |-> 64, z |-> 0] >>] }

TelemetryBodies == { <<>>, [type |-> "combat", data |-> "hit"] }

Requests ==
    {Request("/sync", m, <<>>) : m \in {"GET", "PUT"}}
      \cup {Request("/sync", "POST", b) : b \in SyncBodies}
      \cup {Request("/mission", m, <<>>) : m \in {"GET", "DELETE", "PATCH"}}
      \cup {Request("/mission", "POST", b) : b \in MissionBodies}
      \cup {Request("/tactical", "GET", <<>>)}
      \cup {Request("/tactical", "POST", b) : b \in TacticalBodies}
      \cup {Request("/telemetry", "GET", <<>>)}
      \cup {Request("/telemetry", "POST", <<>>)}
      \cup {Request("/health", "GET", <<>>), Request("/health", "POST", <<>>),
            Request("/unknown", "GET", <<>>)}

NoResponse ==
    [ request |-> Request("", "", <<>>), code |-> 0, body |-> <<>>,
      handler_error |-> "", escaped |-> FALSE ]

\* the requests of the runs that start from a full telemetry list
CapRequests ==
    { Request("/telemetry", "POST", b) : b \in TelemetryBodies }
      \cup { Request("/sync", "POST", [status |-> "flying"]),
             Request("/tactical", "POST", <<>>),
             Request("/mission", "DELETE", <<>>) }

\* a record left in storage by an earlier life of the actor, its telemetry
\* list full
stored_before ==
    serialize_state([new_state(0) EXCEPT !.telemetry_events =
        [i \in 1..TelemetryCap |-> [type |-> "combat", data |-> "hit", n |-> i]]])

\* the run stays within k events of where it started (an empty list, or the
\* full list of stored_before)
within_appends(events, k) ==
    LET last_n == next_n(events) - 1
    IN  \/ last_n <= k
        \/ last_n >= TelemetryCap /\ last_n <= TelemetryCap + k

within_bounds(M, k) ==
    M.mem # None =>
        /\ Len(M.mem[1].mission_queue) <= MaxQueue
        /\ within_appends(M.mem[1].telemetry_events, k)

InitTactical == call = NoCall

\* the agents behind the worker
Agents == {"agent-1", "agent-2"}

\* no actor has been created yet
NoFleet == [a \in Agents |-> Machine(None, None)]

\* no request has arrived
NoFlight == [phase |-> "idle", request |-> <<>>, data |-> None, response |-> <<>>]

NoFlights == [i \in 1..MaxInFlight |-> NoFlight]

NoDriver == [suspended |-> FALSE]

InitFleetIdle ==
    /\ fleet = NoFleet
    /\ alone = NoFleet
    /\ in_flight = NoFlights
    /\ driver = NoDriver

NoSyncCall ==
    [ op |-> "none", args |-> <<>>, raised |-> FALSE, error |-> "", value |-> <<>>,
      telemetry |-> "none" ]

InitSyncIdle ==
    /\ manager = "attribute"
    /\ sync_state = new_sync_state
    /\ buffer = <<>>
    /\ logged = 0
    /\ sync_call = NoSyncCall

Init ==
    /\ state_data = None
    /\ storage = None
    /\ storage_ok = TRUE
    /\ response = NoResponse
    /\ now = 0
    /\ InitSyncIdle
    /\ InitTactical
    /\ InitFleetIdle

\* the step of a fetch: the handler answered `h`, fetch answered `out`
FetchStep(req, h, out, k) ==
    /\ within_bounds(out.M, k)
    /\ state_data' = out.M.mem
    /\ storage' = out.M.store
    /\ response' = [ request |-> req,
                     code |-> IF out.raised THEN 0 ELSE out.value.code,
                     body |-> IF out.raised THEN <<>> ELSE out.value.body,
                     handler_error |-> h.error,
                     escaped |-> out.raised ]
    /\ UNCHANGED <<fleet_vars, storage_ok, now, sync_vars, call>>

FetchRouted(req, h, k) == FetchStep(req, h, fetch_routed(h, storage_ok, now), k)

\* one request out of `requests` handled by AgentStateDO.fetch
FetchFrom(requests, k) ==
    \E req \in requests :
        FetchRouted(req, route(Machine(state_data, storage), storage_ok, now, req), k)

Fetch == FetchFrom(Requests, MaxAppends)

\* the platform evicts the actor: the next request meets a new instance
Restart ==
    /\ state_data # None
    /\ state_data' = None
    /\ response' = NoResponse
    /\ UNCHANGED <<fleet_vars, storage, storage_ok, now, sync_vars, call>>

Next == Fetch \/ Restart

Spec == Init /\ [][Next]_vars

\* The actor over a full telemetry list and a storage that may fail
InitCap ==
    /\ state_data = None
    /\ storage = Some(stored_before)
    /\ storage_ok = TRUE
    /\ response = NoResponse
    /\ now = 0
    /\ InitSyncIdle
    /\ InitTactical
    /\ InitFleetIdle

FetchCap == FetchFrom(CapRequests, MaxCapAppends)

\* storage becomes unavailable, or available again
StorageFlip ==
    /\ storage_ok' = ~storage_ok
    /\ response' = NoResponse
    /\ UNCHANGED <<fleet_vars, state_data, storage, now, sync_vars, call>>

NextCap == FetchCap \/ Restart \/ StorageFlip

SpecCap == InitCap /\ [][NextCap]_vars

\* The actor under a clock that advances between requests (datetime.utcnow)
MaxTime == 2

ClockRequests ==
    { Request("/sync", "POST", [mission |-> "B"]),
      Request("/mission", "POST", [mission |-> "A"]),
      Request("/mission", "DELETE", <<>>),
      Request("/tactical", "POST", <<>>),
      Request("/telemetry", "POST", [type |-> "combat", data |-> "hit"]) }

FetchClock == FetchFrom(ClockRequests, MaxAppends)

\* time passes
Tick ==
    /\ now < MaxTime
    /\ now' = now + 1
    /\ response' = NoResponse
    /\ UNCHANGED <<fleet_vars, state_data, storage, storage_ok, sync_vars, call>>

NextClock == FetchClock \/ Restart \/ Tick

SpecClock == Init /\ [][NextClock]_vars

\* Several agents behind the worker entry point.  A request to the worker is
\* [prefix, path, method, body]: the URL path is the parts of `prefix`
\* followed by `path`, as in /agents/agent-1/sync.
WorkerRequest(prefix, path, method, body) ==
    [prefix |-> prefix, path |-> path, method |-> method, body |-> body]

\* the parts of path.strip("/").split("/")
parts_of(wreq) == wreq.prefix \o <<wreq.path>>

\* len(parts) < 2 or parts[0] != "agents"
invalid_path(wreq) == Len(parts_of(wreq)) < 2 \/ parts_of(wreq)[1] # "agents"

\* a worker that hands every request to the first agent's object
stub_shared(agent_id) == "agent-1"

\* env.AGENT_STATE.get(id=agent_id): the object of that id
stub_of(agent_id) == agent_id

\* the state an actor builds and stores carries the id of its own object
owned_by(M, agent_id) ==
    Machine(IF M.mem = None THEN None ELSE Some([M.mem[1] EXCEPT !.agent_id = agent_id]),
            IF M.store = None THEN None ELSE Some([M.store[1] EXCEPT !.agentId = agent_id]))

\* stub.fetch(request) on the actor of `agent_id`
stub_fetch(M, agent_id, t, wreq) ==
    owned_by(fetch(M, TRUE, t, Request(wreq.path, wreq.method, wreq.body)).M, agent_id)

FleetRequests ==
    { WorkerRequest(<<"agents", a>>, r.path, r.method, r.body) :
        a \in Agents,
        r \in { Request("/sync", "POST", [position |-> Position(3, 64, 0), status |-> "combat"]),
                Request("/mission", "POST", [mission |-> "A"]),
                Request("/mission", "POST", [mission |-> "B"]),
                Request("/mission", "DELETE", <<>>) } }
      \cup { WorkerRequest(<<"agent-1">>, "/sync", "GET", <<>>) }

\* the worker's fetch answers 400 to a path that names no agent
WorkerRejects ==
    \E wreq \in FleetRequests :
        /\ invalid_path(wreq)
        /\ response' = [NoResponse EXCEPT
                           !.request = Request(wreq.path, wreq.method, wreq.prefix),
                           !.code = 400]
        /\ UNCHANGED <<fleet_vars, state_data, storage, storage_ok, now, sync_vars, call>>

\* the worker's fetch forwards a request to the object of the agent its path
\* names; `alone` follows the requests of that agent only
WorkerFetch ==
    \E wreq \in FleetRequests :
        /\ ~invalid_path(wreq)
        /\ LET agent_id == parts_of(wreq)[2]
               target == stub_of(agent_id)
           IN  /\ within_bounds(stub_fetch(fleet[target], target, now, wreq), MaxAppends)
               /\ within_bounds(stub_fetch(alone[agent_id], agent_id, now, wreq), MaxAppends)
               /\ fleet' = [fleet EXCEPT ![target] = stub_fetch(@, target, now, wreq)]
               /\ alone' = [alone EXCEPT ![agent_id] = stub_fetch(@, agent_id, now, wreq)]
        /\ response' = NoResponse
        /\ UNCHANGED <<in_flight, driver, state_data, storage, storage_ok, now, sync_vars, call>>

\* the platform evicts one agent's object
Evict ==
    \E a \in Agents :
        /\ fleet[a].mem # None
        /\ fleet' = [fleet EXCEPT ![a].mem = None]
        /\ alone' = [alone EXCEPT ![a].mem = None]
        /\ response' = NoResponse
        /\ UNCHANGED <<in_flight, driver, state_data, storage, storage_ok, now, sync_vars, call>>

NextFleet == WorkerFetch \/ WorkerRejects \/ Evict

SpecFleet == Init /\ [][NextFleet]_vars

\* States handed to _serialize_state: every field off its default, the
\* lists empty or not
StateInputs ==
    { [ new_state(3) EXCEPT !.status = st, !.position = Position(3, 70, -4), !.health = 7,
                           !.hunger = 9, !.current_task = task,
                           !.active_threats = th, !.known_hazards = hz,
                           !.mission_queue = q, !.telemetry_events = ev ] :
        st \in {"idle", "combat"}, task \in {None, Some("mine")},
        th \in {<<>>, <<IndexThreat("zombie", Position(3, 70, -2), 2, Frac(45, 100), 20)>>},
        hz \in {<<>>, <<IndexHazard("lava", Position(4, 70, -4), Frac(2, 3))>>},
        q \in {<<>>, <<"A", "B">>},
        ev \in { <<>>, [i \in 1..2 |-> [type |-> "combat", data |-> "hit", n |-> i]],
                 [i \in 1..TelemetryCap |-> [type |-> "combat", data |-> "hit", n |-> i]] } }

DrawRoundTrip == \E st \in StateInputs : call = NewCall("round_trip", [state |-> st])

ApplyRoundTrip ==
    /\ call.op = "round_trip" /\ ~call.done
    /\ call' = [call EXCEPT !.done = TRUE, !.result = round_trip(call.args.state)]
    /\ UNCHANGED <<fleet_vars, actor_vars, sync_vars, now>>

\* The pure functions alone: one call drawn, then applied
InitDecision ==
    /\ state_data = None
    /\ storage = None
    /\ storage_ok = TRUE
    /\ response = NoResponse
    /\ now = 0
    /\ InitSyncIdle
    /\ InitFleetIdle
    /\ DrawDecision \/ DrawAssess \/ DrawDanger \/ DrawHazards \/ DrawRoundTrip \/ DrawPath

NextDecision ==
    ApplyDecision \/ ApplyAssess \/ ApplyDanger \/ ApplyHazards \/ ApplyRoundTrip \/ ApplyPath

SpecTactical == InitDecision /\ [][NextDecision]_vars

----------------------------------------------------------------------------
(* The sync manager, the telemetry logger and the driver as a state machine *)

\* Bounds: failed syncs in a row, events logged, the clock
MaxFailures == 1
MaxLogged == 2
MaxSyncTime == 5

AgentSnapshots == {[status |-> "idle", health |-> 20], [status |-> "combat", health |-> 7]}

EventTypes == {"tactical"}

CoordinatorAnswers ==
    [ sync_ok : BOOLEAN, missions_ok : BOOLEAN, pulled : {<<"m1">>},
      telemetry_ok : BOOLEAN ]

InitSync ==
    /\ state_data = None
    /\ storage = None
    /\ storage_ok = TRUE
    /\ response = NoResponse
    /\ now = 0
    /\ manager \in ManagerKinds
    /\ sync_state = new_sync_state
    /\ buffer = <<>>
    /\ logged = 0
    /\ sync_call = NoSyncCall
    /\ InitTactical
    /\ InitFleetIdle

SyncCall(op, args, raised, error, value, telemetry) ==
    [ op |-> op, args |-> args, raised |-> raised, error |-> error, value |-> value,
      telemetry |-> telemetry ]

\* telemetry_logger.log(event_type, data)
Log ==
    \E ty \in EventTypes :
        /\ logged < MaxLogged
        /\ buffer' = log(buffer, ty, now, logged + 1)
        /\ logged' = logged + 1
        /\ sync_call' = SyncCall("log", ty, FALSE, "", <<>>, "none")
        /\ UNCHANGED <<fleet_vars, actor_vars, manager, sync_state, now, call>>

SyncStateDone(agent_state, out) ==
    /\ out.ss.sync_failures <= MaxFailures
    /\ sync_state' = out.ss
    /\ sync_call' = SyncCall("sync_state", agent_state, out.raised, out.error, out.value, "none")
    /\ UNCHANGED <<fleet_vars, actor_vars, manager, buffer, logged, now, call>>

\* manager.sync_state(agent_state)
SyncStateCall ==
    \E agent_state \in AgentSnapshots, sent \in BOOLEAN :
        SyncStateDone(agent_state, call_sync_state(manager, sync_state, agent_state, now, sent))

PeriodicSyncDone(agent_state, out) ==
    /\ out.ss.sync_failures <= MaxFailures
    /\ sync_state' = out.ss
    /\ buffer' = out.buffer
    /\ sync_call' = SyncCall("perform_periodic_sync", agent_state, out.raised, out.error,
                             out.value, out.telemetry)
    /\ UNCHANGED <<fleet_vars, actor_vars, manager, logged, now, call>>

\* perform_periodic_sync(manager, agent_state, telemetry_logger): nothing
\* else runs between its steps (the coordinator calls it awaits do not
\* suspend as written)
PeriodicSync ==
    \E agent_state \in AgentSnapshots, env \in CoordinatorAnswers :
        PeriodicSyncDone(agent_state,
                         perform_periodic_sync(manager, sync_state, buffer, agent_state, now, env))

\* a call of one of the best-effort methods: `args` are its arguments and
\* whether the coordinator answered
SoftCallDone(op, args, out) ==
    /\ sync_state' = out.ss
    /\ sync_call' = SyncCall(op, args, out.raised, out.error, out.value, "none")
    /\ UNCHANGED <<fleet_vars, actor_vars, manager, buffer, logged, now, call>>

\* manager.get_missions()
GetMissions ==
    \E ok \in BOOLEAN :
        SoftCallDone("get_missions", [coordinator_ok |-> ok],
                     get_missions(sync_state, <<"m1">>, ok))

\* manager.send_telemetry(telemetry_logger.get_events())
SendTelemetry ==
    \E ok \in BOOLEAN :
        SoftCallDone("send_telemetry", [events |-> buffer, coordinator_ok |-> ok],
                     send_telemetry(sync_state, buffer, ok))

\* manager.send_heartbeat()
SendHeartbeat ==
    \E ok \in BOOLEAN :
        SoftCallDone("send_heartbeat", [coordinator_ok |-> ok], send_heartbeat(sync_state, ok))

\* manager.report_mission_complete(mission_id, result)
ReportMissionComplete ==
    \E ok \in BOOLEAN :
        SoftCallDone("report_mission_complete", [mission_id |-> "m1", coordinator_ok |-> ok],
                     report_mission_complete(sync_state, "m1", "done", ok))

\* manager.report_mission_failed(mission_id, error)
ReportMissionFailed ==
    \E ok \in BOOLEAN :
        SoftCallDone("report_mission_failed", [mission_id |-> "m1", coordinator_ok |-> ok],
                     report_mission_failed(sync_state, "m1", "lost", ok))

\* the clock of datetime.utcnow() advances
TickSync ==
    /\ now < MaxSyncTime
    /\ now' = now + 1
    /\ sync_call' = NoSyncCall
    /\ UNCHANGED <<fleet_vars, actor_vars, manager, sync_state, buffer, logged, call>>

NextSync == Log \/ SyncStateCall \/ PeriodicSync \/ TickSync

SpecSync == InitSync /\ [][NextSync]_vars

\* The manager's methods called one by one, as an agent calls them outside
\* the driver
NextSoft ==
    \/ Log \/ SyncStateCall \/ TickSync
    \/ GetMissions \/ SendTelemetry \/ SendHeartbeat
    \/ ReportMissionComplete \/ ReportMissionFailed

SpecSoft == InitSync /\ [][NextSoft]_vars

\* Several requests to one agent in flight.  A coroutine runs from one await
\* that suspends to the next: storage.get and storage.put take effect when
\* they are called and their caller resumes later, request.json() resumes
\* later too.  A flight holds the await it is suspended at (phase), its
\* request, and its locals (data: the record read by storage.get, or the
\* mission popped by DELETE).
Flight(phase, request, data, resp) ==
    [phase |-> phase, request |-> request, data |-> data, response |-> resp]

Flown(M, fl) == [M |-> M, flight |-> fl]

MissionNames == <<"A", "B", "C">>

\* _save_state up to its await: the put of the serialized state
put_state(M) == Machine(M.mem, Some(serialize_state(M.mem[1])))

\* _save_state after its await
stamp_state(M, t) == Machine(Some([M.mem[1] EXCEPT !.last_active = t]), M.store)

\* _handle_mission after `await self._ensure_loaded()`, up to the next await
mission_after_load(M, fl) ==
    IF fl.request.method = "POST"
    THEN Flown(M, Flight("json", fl.request, None, <<>>))
    ELSE IF M.mem[1].mission_queue # <<>>
         THEN Flown(put_state(Machine(Some([M.mem[1] EXCEPT !.mission_queue = Tail(@)]),
                                      M.store)),
                    Flight("put_save", fl.request, Some(Head(M.mem[1].mission_queue)), <<>>))
         ELSE Flown(M, Flight("done", fl.request, None,
                              Response(404, [error |-> "No missions to complete"])))

\* a request arrives: _ensure_loaded up to storage.get, or the handler when
\* the state is in memory
flight_arrives(M, request) ==
    IF M.mem = None THEN Flown(M, Flight("get", request, M.store, <<>>))
    ELSE mission_after_load(M, Flight("idle", request, None, <<>>))

\* _ensure_loaded after storage.get answered fl.data
flight_got(M, fl, t) ==
    IF fl.data # None
    THEN mission_after_load(Machine(Some(deserialize_state(fl.data[1])), M.store), fl)
    ELSE Flown(put_state(Machine(Some(new_state(t)), M.store)),
               Flight("put_init", fl.request, None, <<>>))

\* _ensure_loaded after the put of the defaults
flight_initialized(M, fl, t) == mission_after_load(stamp_state(M, t), fl)

\* POST /mission after request.json()
flight_body(M, fl) ==
    IF Get(fl.request.body, "mission", "") = ""
    THEN Flown(M, Flight("done", fl.request, None, Response(400, [error |-> "Missing mission"])))
    ELSE Flown(put_state(Machine(Some([M.mem[1] EXCEPT
                                          !.mission_queue = Append(@, fl.request.body.mission)]),
                                 M.store)),
               Flight("put_save", fl.request, None, <<>>))

\* POST and DELETE /mission after the put of _save_state
flight_saved(M, fl, t) ==
    Flown(stamp_state(M, t),
          Flight("done", fl.request, fl.data,
                 IF fl.request.method = "POST"
                 THEN Response(200, [status |-> "queued",
                                     queueLength |-> Len(M.mem[1].mission_queue)])
                 ELSE Response(200, [completed |-> fl.data[1]])))

flight_resumes(M, fl, t) ==
    CASE fl.phase = "get" -> flight_got(M, fl, t)
      [] fl.phase = "put_init" -> flight_initialized(M, fl, t)
      [] fl.phase = "json" -> flight_body(M, fl)
      [] fl.phase = "put_save" -> flight_saved(M, fl, t)

FlightDone(i, out) ==
    /\ state_data' = out.M.mem
    /\ storage' = out.M.store
    /\ in_flight' = [in_flight EXCEPT ![i] = out.flight]
    /\ response' = NoResponse
    /\ UNCHANGED <<fleet, alone, driver, storage_ok, now, sync_vars, call>>

\* a request reaches the agent while others are suspended
Arrive ==
    \E i \in 1..MaxInFlight :
        /\ in_flight[i].phase = "idle"
        /\ \E request \in { Request("/mission", "POST", [mission |-> MissionNames[i]]),
                            Request("/mission", "DELETE", <<>>) } :
              FlightDone(i, flight_arrives(Machine(state_data, storage), request))

\* a suspended request runs to its next await, or to its response
Resume ==
    \E i \in 1..MaxInFlight :
        /\ in_flight[i].phase \in {"get", "put_init", "json", "put_save"}
        /\ FlightDone(i, flight_resumes(Machine(state_data, storage), in_flight[i], now))

NextRace == Arrive \/ Resume

SpecRace == Init /\ [][NextRace]_vars

\* The driver with events logged while it is suspended in send_telemetry:
\* it runs to `await sync_manager.send_telemetry(telemetry_logger.buffer)`,
\* whose payload is the buffer at the call, and resumes once the send has
\* answered.  A run that does not reach the send is one step.
DriverBegins ==
    \E agent_state \in AgentSnapshots, env \in CoordinatorAnswers :
        /\ ~driver.suspended
        /\ LET synced == call_sync_state(manager, sync_state, agent_state, now, env.sync_ok)
               got == get_missions(synced.ss, env.pulled, env.missions_ok)
           IN  IF should_sync(sync_state, now) /\ ~synced.raised /\ buffer # <<>>
               THEN \* (the send's answer is drawn when the driver resumes)
                    /\ env.telemetry_ok
                    /\ got.ss.sync_failures <= MaxFailures
                    /\ sync_state' = got.ss
                    /\ driver' = [ suspended |-> TRUE, payload |-> buffer,
                                   missions |-> synced.value.missions \o got.value,
                                   configUpdates |-> synced.value.configUpdates ]
                    /\ sync_call' = SyncCall("perform_periodic_sync", agent_state, FALSE, "",
                                             <<>>, "suspended")
                    /\ UNCHANGED <<fleet, alone, in_flight, actor_vars, manager, buffer,
                                   logged, now, call>>
               ELSE PeriodicSyncDone(agent_state,
                                     perform_periodic_sync(manager, sync_state, buffer,
                                                           agent_state, now, env))

\* send_telemetry answers and the driver runs to its return
DriverEnds ==
    \E ok \in BOOLEAN :
        /\ driver.suspended
        /\ LET out == driver_telemetry(driver.missions, driver.configUpdates, buffer,
                                       send_telemetry(sync_state, driver.payload, ok))
           IN  /\ sync_state' = out.ss
               /\ buffer' = out.buffer
               /\ sync_call' = SyncCall("perform_periodic_sync", [payload |-> driver.payload],
                                        out.raised, out.error, out.value, out.telemetry)
        /\ driver' = NoDriver
        /\ UNCHANGED <<fleet, alone, in_flight, actor_vars, manager, logged, now, call>>

NextDriver == Log \/ DriverBegins \/ DriverEnds \/ TickSync

SpecDriver == InitSync /\ [][NextDriver]_vars

\* Sync attempts with their payloads, failures repeated
MaxRetryFailures == 2

\* manager.sync_state(agent_state), the coordinator accepting or not; the
\* call records the payload prepared when the method is reached
SyncAttempt(sent) ==
    \E agent_state \in AgentSnapshots :
        LET out == call_sync_state(manager, sync_state, agent_state, now, sent)
        IN  /\ out.ss.sync_failures <= MaxRetryFailures
            /\ sync_state' = out.ss
            /\ sync_call' = SyncCall("sync_state",
                                     [ state |-> agent_state,
                                       payload |-> IF manager = "attribute" THEN None
                                                   ELSE Some(sync_payload(sync_state,
                                                                          agent_state, now)) ],
                                     out.raised, out.error, out.value, "none")
            /\ UNCHANGED <<fleet_vars, actor_vars, manager, buffer, logged, now, call>>

SyncAccepted == SyncAttempt(TRUE)

SyncRefused == SyncAttempt(FALSE)

NextRetry == SyncAccepted \/ SyncRefused \/ TickSync

SpecRetry == InitSync /\ [][NextRetry]_vars

\* the agent keeps syncing and the coordinator eventually accepts
SpecRetryFair == SpecRetry /\ WF_vars(SyncAccepted)

\* A TelemetryLogger of a small buffer_size used on its own
MaxLoggerEvents == 3
SmallBufferSize == 2

InitLogger ==
    /\ state_data = None
    /\ storage = None
    /\ storage_ok = TRUE
    /\ response = NoResponse
    /\ now = 0
    /\ manager = "attribute"
    /\ sync_state = new_sync_state
    /\ buffer = <<>>
    /\ logged = 0
    /\ sync_call = NoSyncCall
    /\ InitTactical
    /\ InitFleetIdle

\* logger.log(event_type, data)
LogSmall ==
    \E ty \in {"tactical", "combat"} :
        /\ logged < MaxLoggerEvents
        /\ buffer' = log_sized(buffer, SmallBufferSize, ty, now, logged + 1)
        /\ logged' = logged + 1
        /\ sync_call' = SyncCall("log", ty, FALSE, "", <<>>, "none")
        /\ UNCHANGED <<fleet_vars, actor_vars, manager, sync_state, now, call>>

\* logger.get_events(event_type, since, limit)
GetEvents ==
    \E ty \in {None, Some("tactical")}, since \in {None} \cup {Some(t) : t \in 0..now},
       limit \in {1, 100} :
        LET out == get_events(buffer, ty, since, limit)
        IN  /\ buffer' = out.buffer
            /\ sync_call' = SyncCall("get_events",
                                     [event_type |-> ty, since |-> since, limit |-> limit],
                                     FALSE, "", out.value, "none")
            /\ UNCHANGED <<fleet_vars, actor_vars, manager, sync_state, logged, now, call>>

\* logger.clear_events(before)
ClearEvents ==
    \E before \in {None} \cup {Some(t) : t \in 0..now} :
        /\ buffer' = clear_events_before(buffer, before)
        /\ sync_call' = SyncCall("clear_events", [before |-> before], FALSE, "",
                                 Len(buffer) - Len(clear_events_before(buffer, before)), "none")
        /\ UNCHANGED <<fleet_vars, actor_vars, manager, sync_state, logged, now, call>>

NextLogger == LogSmall \/ GetEvents \/ ClearEvents \/ TickSync

SpecLogger == InitLogger /\ [][NextLogger]_vars

----------------------------------------------------------------------------
(* Claims about the actor *)

\* the queue and the telemetry list a handler works on: those in memory, or
\* those of the stored record it would load
queue_of(mem, store) ==
    IF mem # None THEN mem[1].mission_queue
    ELSE IF store # None THEN store[1].missionQueue ELSE <<>>

events_of(mem, store) ==
    IF mem # None THEN mem[1].telemetry_events
    ELSE IF store # None THEN store[1].telemetryEvents ELSE <<>>

IsRequest(r, path, method) == r.request.path = path /\ r.request.method = method

IsEnqueue(r) ==
    \/ IsRequest(r, "/mission", "POST")
    \/ IsRequest(r, "/sync", "POST") /\ "mission" \in DOMAIN r.request.body

\* C1: in every step of a handler, a DELETE /mission answered 200 returns the
\* head of the queue and leaves its tail; the queue otherwise changes only by
\* an enqueue request appending its mission at the tail or by a DELETE
\* /mission removing the head; nothing is reordered.
C1_MissionQueueFifo ==
    [][ response' # NoResponse =>
          LET q == queue_of(state_data, storage)
              q2 == queue_of(state_data', storage')
              r == response'
          IN  /\ (IsRequest(r, "/mission", "DELETE") /\ r.code = 200) =>
                    (q # <<>> /\ r.body.completed = q[1] /\ q2 = Tail(q))
              /\ q2 # q =>
                    \/ IsRequest(r, "/mission", "DELETE") /\ q # <<>> /\ q2 = Tail(q)
                    \/ IsEnqueue(r) /\ q2 = q \o <<r.request.body.mission>> ]_vars

\* C1 witness: two missions were queued, A then B, and a DELETE returned A and left B
C1_Witness ==
    /\ IsRequest(response, "/mission", "DELETE") /\ response.code = 200
    /\ response.body.completed = "A"
    /\ state_data # None /\ state_data[1].mission_queue = <<"B">>

\* a response that tells of an append: a telemetry POST logged, or an error
\* answered 500
TellsOfAppend(r) == (IsRequest(r, "/telemetry", "POST") /\ r.code = 200) \/ r.code = 500

\* C2: the telemetry list in memory never holds more than 100 events, and a
\* request that appends k events (its own, an error event, or both) leaves the
\* newest events of the old list followed by the k new ones, at most 100 in
\* all, in arrival order.
C2_TelemetryBounded ==
    /\ [](state_data # None => Len(state_data[1].telemetry_events) <= TelemetryCap)
    /\ [][ (response' # NoResponse
              /\ \/ TellsOfAppend(response')
                 \/ events_of(state_data', storage') # events_of(state_data, storage)) =>
            LET old == events_of(state_data, storage)
                new == events_of(state_data', storage')
                k == next_n(new) - next_n(old)
                kept == Len(new) - k
            IN  /\ k >= 1
                /\ Len(new) = Min(TelemetryCap, Len(old) + k)
                /\ \A i \in 1..kept : new[i] = old[Len(old) - kept + i]
                /\ \A i \in 1..(Len(new) - 1) : new[i].n + 1 = new[i + 1].n ]_vars

\* C2 witness: an append to a full list has dropped the oldest event
C2_Witness ==
    /\ state_data # None
    /\ Len(state_data[1].telemetry_events) = TelemetryCap
    /\ state_data[1].telemetry_events[1].n = 2
    /\ state_data[1].telemetry_events[TelemetryCap].n = TelemetryCap + 1

\* C5: whenever the handler of a request raised, fetch answered 500 with the
\* error message, the error was logged as the newest telemetry event, and no
\* exception left fetch.
C5_ErrorsAnswered500 ==
    response.handler_error # "" =>
        /\ ~response.escaped
        /\ response.code = 500
        /\ response.body.message = response.handler_error
        /\ state_data # None
        /\ state_data[1].telemetry_events # <<>>
        /\ LET e == state_data[1].telemetry_events[Len(state_data[1].telemetry_events)]
           IN  e.type = "error" /\ e.data.message = response.handler_error

----------------------------------------------------------------------------
(* Claims about the tactical engine *)

Decided == call.op = "get_quick_decision" /\ call.done

HasFatal(hazards) == \E i \in 1..Len(hazards) : hazards[i].severity > Frac(8, 10)

\* the first threat of the list above 0.7, if any
FirstCritical(threats) ==
    LET at == {i \in 1..Len(threats) : threats[i].danger_level > Frac(7, 10)}
    IN  IF at = {} THEN None ELSE Some(threats[CHOOSE i \in at : \A j \in at : i <= j])

\* C6: a hazard list holding a hazard of severity above 0.8 yields flee with
\* priority 1.0 and confidence 1.0, whatever the threats, the combat score
\* and the mission.
C6_FatalHazardFlees ==
    (Decided /\ HasFatal(call.args.hazards)) =>
        /\ call.result.action = "flee"
        /\ call.result.priority = Unit
        /\ call.result.confidence = Unit

\* C6 witness: a fatal hazard was met together with a critical threat, a
\* combat score that would fight it, and a mission
C6_Witness ==
    /\ Decided /\ HasFatal(call.args.hazards)
    /\ FirstCritical(call.args.threats) # None
    /\ call.args.combat_score > Frac(6, 10)
    /\ call.args.current_mission = Some("build-shelter")
    /\ call.result.action = "flee"

\* C7: with no hazard above 0.8 and a threat above 0.7, the decision is attack
\* (priority that threat's danger level, confidence 0.8) when the combat score
\* is above 0.6, and flee (priority 0.9, confidence 0.95) otherwise, 0.6
\* itself included.
C7_CriticalThreatFightOrFlee ==
    (Decided /\ ~HasFatal(call.args.hazards) /\ FirstCritical(call.args.threats) # None) =>
        IF call.args.combat_score > Frac(6, 10)
        THEN /\ call.result.action = "attack"
             /\ call.result.priority = FirstCritical(call.args.threats)[1].danger_level
             /\ call.result.confidence = Frac(8, 10)
        ELSE /\ call.result.action = "flee"
             /\ call.result.priority = Frac(9, 10)
             /\ call.result.confidence = Frac(95, 100)

\* C7 witness: a critical threat met at a combat score of exactly 0.6 was fled
C7_Witness ==
    /\ Decided /\ ~HasFatal(call.args.hazards) /\ FirstCritical(call.args.threats) # None
    /\ call.args.combat_score = Frac(6, 10)
    /\ call.result.action = "flee"

\* C8: with no threats and no hazards the decision is hold with priority 0.1
\* and confidence 0.9, and its reasoning holds the mission name, or the word
\* idle when there is none (an empty name is held by any text, and reads idle).
C8_ClearAreaHolds ==
    (Decided /\ call.args.threats = <<>> /\ call.args.hazards = <<>>) =>
        /\ call.result.action = "hold"
        /\ call.result.priority = Frac(1, 10)
        /\ call.result.confidence = Frac(9, 10)
        /\ LET m == call.args.current_mission
               said == Range(call.result.reasoning)
           IN  IF m = None \/ m = Some("") THEN "idle" \in said ELSE m[1] \in said

\* C8 witness: the area was clear and the reasoning names the mission
C8_Witness ==
    /\ Decided /\ call.args.threats = <<>> /\ call.args.hazards = <<>>
    /\ call.args.current_mission = Some("build-shelter")
    /\ "build-shelter" \in Range(call.result.reasoning)
    /\ "idle" \notin Range(call.result.reasoning)

Assessed == call.op = "assess_threats" /\ call.done

\* the entities whose threat has the danger level `level`, in input order
EntitiesAt(level) ==
    LET a == call.args
    IN  SelectSeq(a.nearby_entities,
                  LAMBDA e : threat_of(a.agent_position, e, a.current_health,
                                       a.combat_score).danger_level = level)

\* the entity a returned threat was built from, as far as the threat tells
SeenAs(e) ==
    [ entity_type |-> Get(e, "type", "unknown"),
      position |-> Position(Get(e, "x", 0), Get(e, "y", 0), Get(e, "z", 0)),
      estimated_health |-> Get(e, "health", 20) ]

SeenIn(t) ==
    [ entity_type |-> t.entity_type, position |-> t.position,
      estimated_health |-> t.estimated_health ]

\* C9: assess_threats returns at most 5 threats, in non-increasing order of
\* danger level, each between 0.3 and 1, and the returned threats of one
\* danger level are the first entities of that level in input order.
C9_ThreatsRanked ==
    Assessed =>
        LET r == call.result
        IN  /\ Len(r) <= 5
            /\ \A i \in 1..Len(r) :
                  /\ r[i].danger_level >= Frac(3, 10)
                  /\ r[i].danger_level <= Unit
                  /\ i < Len(r) => r[i].danger_level >= r[i + 1].danger_level
                  /\ LET same == SelectSeq(r, LAMBDA t : t.danger_level = r[i].danger_level)
                         from == EntitiesAt(r[i].danger_level)
                     IN  /\ Len(same) <= Len(from)
                         /\ \A k \in 1..Len(same) : SeenIn(same[k]) = SeenAs(from[k])

\* C9 witness: more than 5 entities qualified, 5 were returned, and two of
\* equal danger that differ came out in input order
C9_Witness ==
    /\ Assessed
    /\ Len(call.result) = 5
    /\ Len(call.args.nearby_entities) > 5
    /\ \A i \in 1..Len(call.args.nearby_entities) :
          threat_of(call.args.agent_position, call.args.nearby_entities[i],
                    call.args.current_health, call.args.combat_score).danger_level
              >= Frac(3, 10)
    /\ \E i \in 1..4 :
          /\ call.result[i].danger_level = call.result[i + 1].danger_level
          /\ call.result[i] # call.result[i + 1]
    /\ call.result[5].danger_level < call.result[1].danger_level

Compared == call.op = "calculate_danger_level" /\ call.done

\* the health bands of health_factor: below 5, 5 to 9, 10 to 15, above 15
HealthBand(h) == IF h < 5 THEN 1 ELSE IF h < 10 THEN 2 ELSE IF h > 15 THEN 4 ELSE 3

\* C10 as stated: at a fixed entity type, distance and combat score, the
\* danger level at the lower health is strictly above the one at the higher
\* health.
C10_LowerHealthStrictlyMoreDanger ==
    Compared => call.result.lower > call.result.higher

\* C10 amended: the danger level at the lower health is never below the one
\* at the higher health, and it is strictly above exactly when the two
\* healths lie in different bands (below 5, 5 to 9, 10 to 15, above 15) and
\* the danger level at the higher health is above 0 and below 1.
C10_LowerHealthNeverLessDanger ==
    Compared =>
        /\ call.result.lower >= call.result.higher
        /\ call.result.lower > call.result.higher <=>
              /\ HealthBand(call.args.lower) # HealthBand(call.args.higher)
              /\ call.result.higher > 0
              /\ call.result.higher < Unit

\* C10 witness: health 3 against health 20 raised the danger level
C10_Witness ==
    /\ Compared
    /\ call.args.lower = 3 /\ call.args.higher = 20
    /\ call.result.lower > call.result.higher
    /\ call.result.higher > 0

----------------------------------------------------------------------------
(* Claims about the sync manager *)

\* C3: a sync_state call that fails leaves pending_updates with exactly one
\* more snapshot, that of the state it was given (the newest 10 kept), one
\* more failure counted, last_sync_success false and an error recorded; one
\* that succeeds leaves no failures, no pending updates, last_sync_success
\* true and no error.
C3_SyncOutcomeRecorded ==
    [][ sync_call'.op = "sync_state" =>
          IF sync_call'.raised
          THEN /\ sync_state'.sync_failures = sync_state.sync_failures + 1
               /\ ~sync_state'.last_sync_success
               /\ sync_state'.last_error # None
               /\ \E ts \in 0..MaxSyncTime :
                     sync_state'.pending_updates =
                        Last(Append(sync_state.pending_updates,
                                    [timestamp |-> ts, state |-> sync_call'.args]),
                             PendingCap)
          ELSE /\ sync_state'.sync_failures = 0
               /\ sync_state'.pending_updates = <<>>
               /\ sync_state'.last_sync_success
               /\ sync_state'.last_error = None ]_vars

Detected == call.op = "detect_hazards" /\ call.done /\ ~call.result.raised

\* the lava blocks of the input at distance d from the agent (at least d,
\* when `beyond`)
LavaAt(d, beyond) ==
    { i \in 1..Len(call.args.nearby_blocks) :
        /\ call.args.nearby_blocks[i].type = "lava"
        /\ LET dist == distance_between(call.args.agent_position,
                                        block_pos(call.args.nearby_blocks[i]))
           IN  IF beyond THEN dist >= d ELSE dist = d }

HazardsAt(block) ==
    { i \in 1..Len(call.result.value) : call.result.value[i].position = block_pos(block) }

\* C11: detect_hazards reports each lava block 2 blocks away as a hazard of
\* type lava with severity above 0 and at most 1, and reports nothing for a
\* lava block 3 or more blocks away.
C11_LavaWithinRadius ==
    Detected =>
        /\ \A i \in LavaAt(2, FALSE) :
              \E k \in HazardsAt(call.args.nearby_blocks[i]) :
                  /\ call.result.value[k].hazard_type = "lava"
                  /\ call.result.value[k].severity > 0
                  /\ call.result.value[k].severity <= Unit
        /\ \A i \in LavaAt(3, TRUE) : HazardsAt(call.args.nearby_blocks[i]) = {}

----------------------------------------------------------------------------
(* Claims about serialization and the handlers *)

RoundTripped == call.op = "round_trip" /\ call.done

\* C12: deserializing the serialization of a state of at most 100 telemetry
\* events yields a state equal to it in every field, threats, hazards and
\* queued missions included.
C12_RoundTripEqual ==
    RoundTripped => (~call.result.raised /\ call.result.value = call.args.state)

\* the stored record once the state is loaded: the one there was, or the
\* defaults that the first access to an agent persists
StoredOnceLoaded ==
    IF state_data = None /\ storage = None
    THEN Some(serialize_state(new_state(now)))
    ELSE storage

\* the state in memory once it is loaded
StateOnceLoaded ==
    IF state_data # None THEN state_data
    ELSE IF storage # None THEN Some(deserialize_state(storage[1]))
    ELSE Some(new_state(now))

\* C13: a POST /mission without a mission, or with an empty one, is answered
\* 400 and leaves the queue and the stored record as they were (a first
\* access apart, which stores the defaults); with a mission it is answered
\* queued, the mission is appended at the tail, and queueLength is the length
\* of the queue after that.
C13_MissionPostValidated ==
    [][ (response' # NoResponse /\ IsRequest(response', "/mission", "POST")) =>
          LET q == queue_of(state_data, storage)
              q2 == queue_of(state_data', storage')
              r == response'
          IN  IF Get(r.request.body, "mission", "") = ""
              THEN /\ r.code = 400
                   /\ q2 = q
                   /\ storage' = StoredOnceLoaded
              ELSE /\ r.code = 200
                   /\ r.body.status = "queued"
                   /\ q2 = q \o <<r.request.body.mission>>
                   /\ r.body.queueLength = Len(q2) ]_vars

\* C14: a DELETE /mission that meets an empty queue is answered 404 and
\* leaves the state in memory and the stored record as they are once the
\* state is loaded.
C14_EmptyDeleteNotFound ==
    [][ (response' # NoResponse /\ IsRequest(response', "/mission", "DELETE")
           /\ queue_of(state_data, storage) = <<>>) =>
          /\ response'.code = 404
          /\ state_data' = StateOnceLoaded
          /\ storage' = StoredOnceLoaded ]_vars

\* C14 witness: a DELETE met the empty queue of an agent that had been
\* moved and had logged an event, and was answered 404
C14_Witness ==
    /\ IsRequest(response, "/mission", "DELETE") /\ response.code = 404
    /\ state_data # None /\ storage # None
    /\ state_data[1].mission_queue = <<>>
    /\ state_data[1].position # new_state(0).position
    /\ state_data[1].telemetry_events # <<>>

\* the methods each route supports
Supported ==
    [ sync |-> {"GET", "POST"}, mission |-> {"GET", "POST", "DELETE"},
      tactical |-> {"POST"}, telemetry |-> {"POST"}, health |-> {"GET"} ]

IsUnsupported(r) ==
    \/ r.request.path = "/sync" /\ r.request.method \notin Supported.sync
    \/ r.request.path = "/mission" /\ r.request.method \notin Supported.mission
    \/ r.request.path = "/tactical" /\ r.request.method \notin Supported.tactical
    \/ r.request.path = "/telemetry" /\ r.request.method \notin Supported.telemetry
    \/ r.request.path = "/health" /\ r.request.method \notin Supported.health

\* C15: a request to /sync, /mission, /tactical, /telemetry or /health with a
\* method the route does not support is answered 405 and leaves position,
\* status, health, hunger, current task, mission queue and telemetry events
\* as they are once the state is loaded.
C15_UnsupportedMethod405 ==
    [][ (response' # NoResponse /\ IsUnsupported(response')) =>
          /\ response'.code = 405
          /\ state_data' # None =>
                LET was == StateOnceLoaded[1]
                    is == state_data'[1]
                IN  /\ is.position = was.position /\ is.status = was.status
                    /\ is.health = was.health /\ is.hunger = was.hunger
                    /\ is.current_task = was.current_task
                    /\ is.mission_queue = was.mission_queue
                    /\ is.telemetry_events = was.telemetry_events ]_vars

\* C16: a POST /tactical is answered with decision, threats, hazards and
\* timestamp; afterwards the active threats and known hazards are those
\* computed for this request, position and health are the supplied ones, one
\* telemetry event of type tactical has been appended, and the stored record
\* holds all of it.
C16_TacticalCompletes ==
    [][ (response' # NoResponse /\ IsRequest(response', "/tactical", "POST")) =>
          LET body == response'.request.body
              was == StateOnceLoaded[1]
              position == Get(body, "position", was.position)
              health == Get(body, "health", was.health)
              old == events_of(state_data, storage)
          IN  /\ response'.code = 200
              /\ {"decision", "threats", "hazards", "timestamp"} \subseteq DOMAIN response'.body
              /\ state_data' # None
              /\ state_data'[1].position = position
              /\ state_data'[1].health = health
              /\ state_data'[1].active_threats =
                    assess_threats(position, Get(body, "nearbyEntities", <<>>), health,
                                   Frac(5, 10))
              /\ state_data'[1].known_hazards =
                    detect_hazards(position, Get(body, "nearbyBlocks", <<>>))
              /\ state_data'[1].telemetry_events # <<>>
              /\ Last(state_data'[1].telemetry_events, 1)[1].type = "tactical"
              /\ next_n(state_data'[1].telemetry_events) = next_n(old) + 1
              /\ storage' # None
              /\ storage'[1].position = position /\ storage'[1].health = health
              /\ storage'[1].telemetryEvents = state_data'[1].telemetry_events ]_vars

\* C17: a POST /sync sets position, status, health, hunger and current task
\* to the values present in its body and leaves the absent ones alone,
\* appends the mission of its body, if any, at the tail of the queue, and
\* changes neither agent id, active threats, known hazards nor telemetry
\* events.
C17_SyncPostMerges ==
    [][ (response' # NoResponse /\ IsRequest(response', "/sync", "POST")) =>
          LET body == response'.request.body
              was == StateOnceLoaded[1]
          IN  /\ state_data' # None
              /\ state_data'[1].position = Get(body, "position", was.position)
              /\ state_data'[1].status = Get(body, "status", was.status)
              /\ state_data'[1].health = Get(body, "health", was.health)
              /\ state_data'[1].hunger = Get(body, "hunger", was.hunger)
              /\ state_data'[1].current_task = Get(body, "currentTask", was.current_task)
              /\ state_data'[1].mission_queue =
                    IF "mission" \in DOMAIN body
                    THEN was.mission_queue \o <<body.mission>>
                    ELSE was.mission_queue
              /\ state_data'[1].agent_id = was.agent_id
              /\ state_data'[1].active_threats = was.active_threats
              /\ state_data'[1].known_hazards = was.known_hazards
              /\ state_data'[1].telemetry_events = was.telemetry_events ]_vars

IsMutating(r) ==
    \/ IsRequest(r, "/sync", "POST")
    \/ IsRequest(r, "/mission", "POST")
    \/ IsRequest(r, "/mission", "DELETE")
    \/ IsRequest(r, "/tactical", "POST")
    \/ IsRequest(r, "/telemetry", "POST")

\* C18: when a sync POST, mission POST, mission DELETE, tactical POST or
\* telemetry POST has been answered 200, the stored record is the
\* serialization of the state in memory as the handler leaves it, the
\* lastActive stamp of that request included.
C18_StoredEqualsMemory ==
    [][ (response' # NoResponse /\ IsMutating(response') /\ response'.code = 200) =>
          /\ state_data' # None
          /\ storage' = Some(serialize_state(state_data'[1])) ]_vars

\* C19: a request to /health leaves the state in memory and the stored
\* record as they are, loading and creating nothing; it answers 200 with
\* agentId "uninitialized" while this actor has no state in memory, and with
\* the agent's id once a handler has loaded it.
C19_HealthReadsOnly ==
    [][ (response' # NoResponse /\ response'.request.path = "/health") =>
          /\ state_data' = state_data
          /\ storage' = storage
          /\ ~response'.escaped
          /\ response'.code = 200
          /\ response'.body.agentId =
                IF state_data = None THEN "uninitialized" ELSE state_data[1].agent_id ]_vars

\* a health check met a stored record and an actor without state: it
\* answered uninitialized and loaded nothing
C19_Witness ==
    /\ response.request.path = "/health"
    /\ response.code = 200
    /\ response.body.agentId = "uninitialized"
    /\ state_data = None
    /\ storage # None

IsStateRoute(r) == r.request.path \in {"/sync", "/mission", "/tactical", "/telemetry"}

\* the state of an agent met for the first time
FirstState ==
    [ agent_id |-> AgentId, status |-> "idle", position |-> Position(0, 64, 0),
      health |-> 20, hunger |-> 20, current_task |-> None, inventory_slots |-> 36,
      last_active |-> now, active_threats |-> <<>>, known_hazards |-> <<>>,
      mission_queue |-> <<>>, telemetry_events |-> <<>> ]

\* what a request leaves on an actor that holds `state` in memory and
\* `record` in storage
LeftBy(req, state, record) ==
    fetch(Machine(Some(state), Some(record)), storage_ok, now, req).M

\* C20: a request to /sync, /mission, /tactical or /telemetry that meets an
\* actor without state and an empty storage is applied to a state that was
\* created with status idle, position (0,64,0), health 20, hunger 20, an
\* empty mission queue and no telemetry events, and that was stored before;
\* when it meets a stored record it is applied to the state read from that
\* record, and the record is not replaced by defaults.
C20_LoadedBeforeApplied ==
    [][ (response' # NoResponse /\ IsStateRoute(response') /\ state_data = None) =>
          LET left == IF storage = None
                      THEN LeftBy(response'.request, FirstState, serialize_state(FirstState))
                      ELSE LeftBy(response'.request, deserialize_state(storage[1]), storage[1])
          IN  /\ state_data' = left.mem
              /\ storage' = left.store
              /\ storage' # None ]_vars

\* a request met a stored record left by an earlier life of the actor and
\* answered from it
C20_Witness ==
    /\ IsRequest(response, "/mission", "GET")
    /\ response.code = 200
    /\ Len(response.body.missions) = 2
    /\ state_data # None
    /\ state_data[1].status = "combat"
    /\ storage = Some(serialize_state(state_data[1]))

\* C21: the agent id of a state, once there is one, never changes: not in
\* memory under any request, a POST /sync whose body has an agentId included,
\* not in the stored record, and not when the state is read back from the
\* record.
C21_AgentIdImmutable ==
    [][ /\ (state_data # None /\ state_data' # None) =>
               state_data'[1].agent_id = state_data[1].agent_id
        /\ (storage # None /\ storage' # None) =>
               storage'[1].agentId = storage[1].agentId
        /\ (state_data = None /\ storage # None /\ state_data' # None) =>
               state_data'[1].agent_id = storage[1].agentId
        /\ (state_data # None /\ storage' # None) =>
               storage'[1].agentId = state_data[1].agent_id ]_vars

\* a POST /sync whose body names another agent was applied and answered
C21_Witness ==
    /\ IsRequest(response, "/sync", "POST")
    /\ "agentId" \in DOMAIN response.request.body
    /\ response.request.body.agentId # AgentId
    /\ response.code = 200
    /\ response.body.agentId = AgentId
    /\ state_data # None
    /\ state_data[1].health = response.request.body.health
    /\ storage # None
    /\ storage[1].health = response.request.body.health

----------------------------------------------------------------------------
(* Further claims about the tactical engine *)

\* C22: assess_threats and detect_hazards return a list for every input and
\* never raise, a block of a radius-0 type at the agent's own position
\* included.
C22_EngineNeverRaises ==
    /\ (call.op = "detect_hazards" /\ call.done) => ~call.result.raised
    /\ (call.op = "assess_threats" /\ call.done) =>
           Len(call.result) <= Len(call.args.nearby_entities)

----------------------------------------------------------------------------
(* Further claims about the actor *)

\* C23: in every request the status changes only if the request is a POST
\* /sync whose body has a status, and then to that status; mission, tactical,
\* telemetry and health requests and the logging of an error leave it as it
\* was, whatever the tactical decision.
C23_StatusOnlyBySync ==
    [][ (response' # NoResponse /\ state_data' # None
           /\ state_data'[1].status # StateOnceLoaded[1].status) =>
          /\ IsRequest(response', "/sync", "POST")
          /\ "status" \in DOMAIN response'.request.body
          /\ state_data'[1].status = response'.request.body.status ]_vars

\* a tactical request met threats (the decision is to flee) on an agent whose
\* status a sync had set, and the status is still that one
C23_Witness ==
    /\ IsRequest(response, "/tactical", "POST")
    /\ state_data # None
    /\ state_data[1].active_threats # <<>>
    /\ state_data[1].status = "combat"

StatusEdges ==
    { <<"idle", "planning">>, <<"planning", "executing">>,
      <<"executing", "waiting">>, <<"executing", "combat">>, <<"executing", "error">>,
      <<"waiting", "idle">>, <<"combat", "idle">>, <<"error", "idle">> }

\* C24: every change of the status follows an edge of the status machine:
\* idle to planning, planning to executing, executing to waiting, combat or
\* error, and waiting, combat or error to idle.
C24_StatusFollowsEdges ==
    [][ (response' # NoResponse /\ state_data' # None
           /\ state_data'[1].status # StateOnceLoaded[1].status) =>
          <<StateOnceLoaded[1].status, state_data'[1].status>> \in StatusEdges ]_vars

----------------------------------------------------------------------------
(* Further claims about the sync manager and the driver *)

\* a state sync was attempted, directly or by the driver, and failed
SyncFailed(c) == c.op \in {"sync_state", "perform_periodic_sync"} /\ c.raised

\* C25: pending_updates never holds more than 10 entries, and every failed
\* state sync puts the snapshot it tried to send at its tail, the oldest
\* entries beyond 10 dropped: after n failures in a row it holds the newest
\* min(n, 10) of them in the order in which they failed.
C25_PendingNewestTen ==
    [][ /\ Len(sync_state'.pending_updates) <= PendingCap
        /\ SyncFailed(sync_call') =>
              [i \in 1..Len(sync_state'.pending_updates) |->
                   sync_state'.pending_updates[i].state]
                = Last([i \in 1..Len(sync_state.pending_updates) |->
                            sync_state.pending_updates[i].state] \o <<sync_call'.args>>,
                       PendingCap) ]_vars

SoftOps ==
    {"get_missions", "send_telemetry", "send_heartbeat", "report_mission_complete",
     "report_mission_failed"}

\* the call had something to send and the coordinator failed
CoordinatorFailed(c) ==
    /\ ~c.args.coordinator_ok
    /\ c.op = "send_telemetry" => c.args.events # <<>>

\* C26: get_missions, send_telemetry, send_heartbeat, report_mission_complete
\* and report_mission_failed never raise; when the coordinator fails
\* get_missions returns an empty list and the others return false, and
\* last_error is recorded; none of them changes last_sync, last_sync_success,
\* sync_failures or pending_updates; send_telemetry with no events returns
\* true and records nothing.
C26_SoftCallsNeverRaise ==
    [][ sync_call'.op \in SoftOps =>
          /\ ~sync_call'.raised
          /\ sync_state'.last_sync = sync_state.last_sync
          /\ sync_state'.last_sync_success = sync_state.last_sync_success
          /\ sync_state'.sync_failures = sync_state.sync_failures
          /\ sync_state'.pending_updates = sync_state.pending_updates
          /\ CoordinatorFailed(sync_call') =>
                /\ sync_call'.value = IF sync_call'.op = "get_missions" THEN <<>> ELSE FALSE
                /\ sync_state'.last_error # None
          /\ (sync_call'.op = "send_telemetry" /\ sync_call'.args.events = <<>>) =>
                /\ sync_call'.value = TRUE
                /\ sync_state' = sync_state ]_vars

\* on a manager as __init__ builds it, a send of buffered events failed: it
\* returned false, the error is recorded and the events are still buffered
C26_Witness ==
    /\ manager = "attribute"
    /\ sync_call.op = "send_telemetry"
    /\ sync_call.args.events # <<>>
    /\ ~sync_call.args.coordinator_ok
    /\ sync_call.value = FALSE
    /\ sync_state.last_error # None
    /\ sync_state.last_sync = None
    /\ buffer = sync_call.args.events

\* C27: a run of the driver that finds should_sync true performs the state
\* sync on the manager (last_sync is the time of the run); when the sync
\* succeeds the driver returns synced = true with the missions pulled added
\* to those of the sync answer and the pending telemetry handled; when the
\* sync fails the driver raises, and the buffer is neither sent nor cleared.
C27_DriverSyncsThenPulls ==
    [][ (sync_call'.op = "perform_periodic_sync" /\ should_sync(sync_state, now)) =>
          /\ sync_state'.last_sync = Some(now)
          /\ IF sync_call'.raised
             THEN /\ ~sync_state'.last_sync_success
                  /\ sync_call'.telemetry = "none"
                  /\ buffer' = buffer
             ELSE /\ sync_state'.last_sync_success
                  /\ sync_call'.value.synced
                  /\ \E env \in CoordinatorAnswers :
                        sync_call'.value.missions \in
                           {sync_response.missions, sync_response.missions \o env.pulled}
                  /\ buffer # <<>> =>
                        /\ sync_call'.telemetry # "none"
                        /\ sync_call'.value.telemetrySent = (sync_call'.telemetry = "sent") ]_vars

\* a state sync has been attempted on the manager: an attempt left its time,
\* or the call just made was one
SyncAttempted ==
    \/ sync_state.last_sync # None
    \/ sync_call.op = "sync_state"
    \/ sync_call.op = "perform_periodic_sync" /\ sync_call.raised

\* no sync attempted yet, or the interval has passed since last_sync
SyncDue ==
    \/ ~SyncAttempted
    \/ sync_state.last_sync # None /\ now - sync_state.last_sync[1] >= SyncIntervalSeconds

\* C28: the driver goes on to sync exactly when no sync has been attempted
\* yet or sync_interval_seconds have passed since last_sync; otherwise it
\* returns synced = false and telemetrySent = false and leaves the SyncState
\* and the telemetry buffer as they were.
C28_SyncsOnlyWhenDue ==
    [][ sync_call'.op = "perform_periodic_sync" =>
          IF SyncDue
          THEN sync_call'.raised \/ sync_call'.value.synced
          ELSE /\ ~sync_call'.raised
               /\ ~sync_call'.value.synced
               /\ ~sync_call'.value.telemetrySent
               /\ sync_state' = sync_state
               /\ buffer' = buffer ]_vars

----------------------------------------------------------------------------
(* Further claims about get_quick_decision *)

\* the first hazard of the list above 0.4, if any
FirstMedium(hazards) ==
    LET at == {i \in 1..Len(hazards) : hazards[i].severity > Frac(4, 10)}
    IN  IF at = {} THEN None ELSE Some(hazards[CHOOSE i \in at : \A j \in at : i <= j])

\* the first threat of the list is above 0.4
FirstThreatMedium(threats) == threats # <<>> /\ threats[1].danger_level > Frac(4, 10)

\* C30: the rules apply in order.  With no hazard above 0.8 and no threat
\* above 0.7, a first threat above 0.4 yields attack when the combat score is
\* above 0.7 and otherwise shield with confidence 0.7, the priority being that
\* threat's danger level, whether or not a hazard above 0.4 is there; dodge,
\* with the priority of the first hazard above 0.4 and confidence 0.8, is the
\* decision only when that threat rule does not match and there is such a
\* hazard.  Every decision is one of flee, attack, shield, dodge and hold with
\* priority and confidence between 0 and 1.
C30_CascadeInOrder ==
    Decided =>
        /\ call.result.action \in {"flee", "attack", "shield", "dodge", "hold"}
        /\ call.result.priority >= 0 /\ call.result.priority <= Unit
        /\ call.result.confidence >= 0 /\ call.result.confidence <= Unit
        /\ (~HasFatal(call.args.hazards) /\ FirstCritical(call.args.threats) = None) =>
              IF FirstThreatMedium(call.args.threats)
              THEN /\ call.result.priority = call.args.threats[1].danger_level
                   /\ IF call.args.combat_score > Frac(7, 10)
                      THEN call.result.action = "attack"
                      ELSE /\ call.result.action = "shield"
                           /\ call.result.confidence = Frac(7, 10)
              ELSE IF FirstMedium(call.args.hazards) # None
                   THEN /\ call.result.action = "dodge"
                        /\ call.result.priority = FirstMedium(call.args.hazards)[1].severity
                        /\ call.result.confidence = Frac(8, 10)
                   ELSE call.result.action = "hold"
        /\ call.result.action = "dodge" =>
              /\ ~FirstThreatMedium(call.args.threats)
              /\ FirstMedium(call.args.hazards) # None

\* a first threat above 0.4 met together with a hazard above 0.4 at a combat
\* score of exactly 0.7 was answered with the shield
C30_Witness ==
    /\ Decided
    /\ ~HasFatal(call.args.hazards) /\ FirstCritical(call.args.threats) = None
    /\ FirstThreatMedium(call.args.threats)
    /\ FirstMedium(call.args.hazards) # None
    /\ call.args.combat_score = Frac(7, 10)
    /\ call.result.action = "shield"
    /\ call.result.priority = Frac(45, 100)

\* the first hazard of the list above 0.8, if any
FirstFatal(hazards) ==
    LET at == {i \in 1..Len(hazards) : hazards[i].severity > Frac(8, 10)}
    IN  IF at = {} THEN None ELSE Some(hazards[CHOOSE i \in at : \A j \in at : i <= j])

\* the sign of a coordinate
Sign(c) == IF c = 0 THEN 0 ELSE IF c > 0 THEN 1 ELSE -1

\* `position` moved by `step` away from the world origin along x and z
AwayFromOrigin(position, step) ==
    Position(position.x + Sign(position.x) * step, position.y,
             position.z + Sign(position.z) * step)

\* C31: the target of a flee or dodge decision is the position of the hazard
\* or threat it answers, moved on each of x and z in the direction of the
\* sign of that coordinate (away from the world origin): by 5 for a fatal
\* hazard, by 10 for a threat, by 3 for a dodge; an axis at 0 and the y axis
\* are not moved.
C31_TargetAwayFromOrigin ==
    (Decided /\ call.result.action \in {"flee", "dodge"}) =>
        call.result.target_position =
            IF FirstFatal(call.args.hazards) # None
            THEN Some(AwayFromOrigin(FirstFatal(call.args.hazards)[1].position, 5))
            ELSE IF call.result.action = "flee"
                 THEN Some(AwayFromOrigin(FirstCritical(call.args.threats)[1].position, 10))
                 ELSE Some(AwayFromOrigin(FirstMedium(call.args.hazards)[1].position, 3))

----------------------------------------------------------------------------
(* Further claims about detect_hazards *)

\* the blocks of the input strictly below y - 1
BlocksBelow ==
    SelectSeq(call.args.nearby_blocks, LAMBDA b : b.y < call.args.agent_position.y - 1)

\* at least 6 blocks lie below and none of them is solid
VoidBelow ==
    /\ Len(BlocksBelow) >= 6
    /\ \A i \in 1..Len(BlocksBelow) : ~BlocksBelow[i].solid

\* C32: detect_hazards returns, for every position and block list, at most 5
\* hazards in order of non-increasing severity, each of severity between 0
\* and 1 and of type lava, fire, damage, fall or suffocation; a fall hazard is
\* among the candidates exactly when at least 6 blocks lie strictly below
\* y - 1 and none of them is solid, and its severity is min(1, count / 10).
C32_HazardsRankedAndBounded ==
    (call.op = "detect_hazards" /\ call.done) =>
        /\ ~call.result.raised
        /\ LET hz == call.result.value
               falls == {i \in 1..Len(hz) : hz[i].hazard_type = "fall"}
               fall_severity == Min(Unit, Frac(Len(BlocksBelow), 10))
           IN  /\ Len(hz) <= 5
               /\ \A i \in 1..Len(hz) :
                     /\ hz[i].severity >= 0 /\ hz[i].severity <= Unit
                     /\ hz[i].hazard_type \in {"lava", "fire", "damage", "fall", "suffocation"}
                     /\ i < Len(hz) => hz[i].severity >= hz[i + 1].severity
               /\ \A i \in falls : VoidBelow /\ hz[i].severity = fall_severity
               /\ VoidBelow =>
                     \/ falls # {}
                     \/ Len(hz) = 5 /\ hz[5].severity >= fall_severity

----------------------------------------------------------------------------
(* Claims about adjust_pathfinding_for_threats *)

Adjusted == call.op = "adjust_pathfinding_for_threats" /\ call.done

SquaredDistance(a, b) ==
    (a.x - b.x) * (a.x - b.x) + (a.y - b.y) * (a.y - b.y) + (a.z - b.z) * (a.z - b.z)

\* a waypoint less than 5 units from a threat of danger_level above 0.5 or
\* from a hazard of severity above 0.4
NearDanger(w) ==
    \/ \E i \in 1..Len(call.args.threats) :
          /\ call.args.threats[i].danger_level > Frac(5, 10)
          /\ SquaredDistance(w, call.args.threats[i].position) < 5 * 5
    \/ \E i \in 1..Len(call.args.hazards) :
          /\ call.args.hazards[i].severity > Frac(4, 10)
          /\ SquaredDistance(w, call.args.hazards[i].position) < 5 * 5

SafeWaypoints == SelectSeq(call.args.current_path, LAMBDA w : ~NearDanger(w))

\* C33: adjust_pathfinding_for_threats returns, in their original order, the
\* waypoints that are not within 5 units of a threat with danger_level above
\* 0.5 nor of a hazard with severity above 0.4; without threats and hazards
\* the path comes back unchanged; when every waypoint of a non-empty path is
\* filtered out the result is the final waypoint alone; an empty path yields
\* an empty path.
C33_PathKeepsSafeWaypoints ==
    Adjusted =>
        LET path == call.args.current_path
        IN  /\ SafeWaypoints # <<>> => call.result = SafeWaypoints
            /\ (call.args.threats = <<>> /\ call.args.hazards = <<>>) => call.result = path
            /\ (path # <<>> /\ SafeWaypoints = <<>>) => call.result = <<path[Len(path)]>>
            /\ path = <<>> => call.result = <<>>

\* a path next to a creeper whose every waypoint is filtered out: the final
\* waypoint comes back alone
C33_Witness ==
    /\ Adjusted
    /\ call.args.current_path = <<Position(5, 64, 0), Position(1, 64, 0)>>
    /\ Len(call.args.threats) = 1 /\ call.args.threats[1].entity_type = "creeper"
    /\ call.result = <<Position(1, 64, 0)>>

----------------------------------------------------------------------------
(* The known hostile mobs of the tests *)

\* the threats returned for entities of type `entity_type` at distance d
ReturnedAs(entity_type, d) ==
    {i \in 1..Len(call.result) :
        /\ call.result[i].entity_type = entity_type
        /\ call.result[i].distance = d
        /\ call.result[i].danger_level > 0}

\* C34: for an agent at full health (20) with the default combat score, a
\* zombie 5 blocks away and a creeper 10 blocks away are returned by
\* assess_threats as threats with their Euclidean distance and a danger_level
\* above 0, the creeper's danger_level above the zombie's when both are
\* returned; the same zombie is also returned at health 3.
C34_KnownHostilesReturned ==
    (Assessed /\ call.args.combat_score = Frac(5, 10) /\ call.args.current_health \in {20, 3}) =>
        LET entities == Range(call.args.nearby_entities)
            zombies == ReturnedAs("zombie", 5)
            creepers == ReturnedAs("creeper", 10)
        IN  /\ TestZombie \in entities => zombies # {}
            /\ (call.args.current_health = 20 /\ TestCreeper \in entities) => creepers # {}
            /\ \A i \in zombies, j \in creepers :
                  call.result[j].danger_level > call.result[i].danger_level

----------------------------------------------------------------------------
(* Claims about the TelemetryLogger *)

\* the events of the buffer stand in the order they were logged
InLoggingOrder(buf) == \A i, j \in 1..Len(buf) : i < j => buf[i].n < buf[j].n

\* C35: get_events is a pure query: with every filter combination, and with
\* none, it leaves the buffer's content and order unchanged, so after any
\* interleaving of log, get_events and clear_events the buffer holds the
\* most recently logged events in logging order, and a log that overflows
\* evicts the oldest logged event.
C35_GetEventsLeavesBuffer ==
    [][ /\ sync_call'.op = "get_events" => buffer' = buffer
        /\ InLoggingOrder(buffer')
        /\ (sync_call'.op = "log" /\ Len(buffer) = SmallBufferSize) =>
              \A i \in 1..Len(buffer') : \E j \in 1..Len(buffer) :
                  buffer[j].n < buffer'[i].n ]_vars

----------------------------------------------------------------------------
(* A POST /sync answered with an error *)

\* position, health, hunger, current task and mission queue of a state /
\* of a stored record
SyncFields(st) ==
    <<st.position, st.health, st.hunger, st.current_task, st.mission_queue>>

StoredSyncFields(rec) ==
    <<rec.position, rec.health, rec.hunger, rec.currentTask, rec.missionQueue>>

\* C36: a POST /sync answered with an error applies none of its fields:
\* position, health, hunger, current task and mission queue are, in memory
\* and in storage, what they were before the request.
C36_FailedSyncAppliesNothing ==
    [][ ( /\ response' # NoResponse /\ IsRequest(response', "/sync", "POST")
          /\ response'.code >= 400 ) =>
          /\ state_data' # None => SyncFields(state_data'[1]) = SyncFields(StateOnceLoaded[1])
          /\ storage' # None =>
                StoredSyncFields(storage'[1]) = StoredSyncFields(StoredOnceLoaded[1]) ]_vars

----------------------------------------------------------------------------
(* Requests to one agent in flight together *)

\* request i was answered with status queued
Queued(i) ==
    /\ in_flight[i].phase = "done"
    /\ in_flight[i].response.code = 200
    /\ "status" \in DOMAIN in_flight[i].response.body

\* a DELETE has taken the mission out of the queue
Deleted(mission) ==
    \E j \in 1..MaxInFlight :
        /\ in_flight[j].request # <<>> /\ in_flight[j].request.method = "DELETE"
        /\ in_flight[j].data = Some(mission)

\* C37: with several requests to one agent in flight, interleaved at their
\* awaits only, no acknowledged update is lost: every mission answered with
\* status queued is in the mission queue in memory and in storage until a
\* DELETE removes it, and the lazy initialization with the defaults never
\* replaces a state that already holds updates.
C37_NoAcknowledgedMissionLost ==
    [][ /\ \A i \in 1..MaxInFlight :
              (Queued(i)' /\ ~Deleted(MissionNames[i])') =>
                  /\ state_data' # None
                  /\ MissionNames[i] \in Range(state_data'[1].mission_queue)
                  /\ storage' # None
                  /\ MissionNames[i] \in Range(storage'[1].missionQueue)
        /\ \A i \in 1..MaxInFlight :
              (in_flight[i].phase = "get" /\ in_flight'[i].phase = "put_init") =>
                  ~(state_data # None /\ state_data[1].mission_queue # <<>>) ]_vars

----------------------------------------------------------------------------
(* Events logged while the driver is suspended *)

----------------------------------------------------------------------------
(* The time of a sync attempt *)

\* C39: every call of sync_state sets last_sync to the time of the attempt,
\* whether it succeeds or fails, so after any attempt, a failed one included,
\* should_sync is false until sync_interval_seconds have passed, and a failed
\* sync is retried no earlier than one interval later.
C39_AttemptStampsLastSync ==
    [][ sync_call'.op = "sync_state" =>
          /\ sync_state'.last_sync = Some(now)
          /\ \A t \in now..(now + SyncIntervalSeconds - 1) : ~should_sync(sync_state', t) ]_vars

----------------------------------------------------------------------------
(* The snapshots waiting for a retry *)

\* the pending updates sent with the attempt just made
SentPending == IF sync_call.args.payload = None THEN {}
               ELSE Range(sync_call.args.payload[1].pendingUpdates)

====
